---- MODULE Spec2Model ----
(***************************************************************************)
(* A model of the ComputeHorde validator core:                             *)
(*   - the organic job driver (organic_jobs/miner_driver.py) together with *)
(*     the facilitator layer and the miner router around it,               *)
(*   - the prefetching chain oracle (allowance/utils/supertensor.py).      *)
(* Each subsystem has its own specification (SpecJob, SpecRouting,         *)
(* SpecCache, ...); the variables of the other subsystems stay idle.       *)
(***************************************************************************)
EXTENDS Integers, Sequences, FiniteSets, TLC

VARIABLES
    \* ---- clock and router state (persisted tables)
    now,                \* wall clock, in seconds
    online_count,       \* MinerManifest.online_executor_count per miner
    blacklist,          \* MinerBlacklist rows: [miner, expires_at]
    started_receipts,   \* JobStartedReceipt rows: [job_uuid, miner, timestamp, ttl]
    finished_receipts,  \* job uuids having a JobFinishedReceipt
    reservations,       \* preliminary reservations: [job_uuid, miner, created_at]
    picked,             \* result of pick_miner_for_job_request per job uuid
    \* ---- facilitator layer and job driver, per job
    pc,                 \* position of the job's task
    trusted,            \* job_request.on_trusted_miner
    stage,              \* protocol state of the job: the miner's last message
    job,                \* the in-memory OrganicJob
    db_job,             \* the persisted OrganicJob status (after asave)
    exc,                \* the OrganicJobError raised by run_organic_job
    outcome,            \* what the branch of drive_organic_job computed
    save_events,        \* whether save_event writes (lines 175-181)
    updates,            \* JobStatusUpdates sent to the facilitator
    events,             \* SystemEvent rows written for the job
    contacted,          \* miners the job's driver opened a connection to
    disable_trusted_events, \* DYNAMIC_DISABLE_TRUSTED_ORGANIC_JOB_EVENTS
    \* ---- prefetching chain oracle (PrecachingSuperTensor)
    closing,            \* self.closing
    cache,              \* self.cache: value per (kind, block), or NoValue
    throw_on_cache_miss,
    enable_workers,
    task_queue,         \* self.task_queue
    highest_block_requested,
    highest_block_submitted,
    current_block,      \* what get_current_block returns
    wpc,                \* position of each worker thread
    wtask,              \* the task a worker took from the queue
    ppc,                \* position of the producer thread
    close_pc,           \* position of close()
    the_end_puts,       \* THE_END tasks close() has put so far
    ret,                \* outcome of the consumer's last call
    reads,              \* consumer calls made
    \* ---- one chain read operation of the oracle (SuperTensor)
    archive_configured, \* s.archive_bittensor is not None
    o_pc,               \* position of the call
    o_op,               \* the operation called
    o_step,             \* which inner read of the operation is running
    o_outer,            \* attempt number of the operation's own retry
    o_inner,            \* attempt numbers of the retries nested inside it
    o_cached,           \* kinds the call has already stored in a cache
    o_timeouts,         \* attempts that timed out in a row
    o_last,             \* the last attempt: outcomes, sources read, result
    o_result,           \* what the call returned or raised
    \* ---- output uploaders of one process (asyncio tasks)
    up_kind,            \* "zip" (ZipAndHTTPPost/Put) or "multi" (MultiUpload)
    up_pc,              \* position of upload()
    up_left,            \* uploads of the MultiUpload the loop has not reached yet
    up_sys,             \* the MultiUpload has a system_output
    up_tasks,           \* single file tasks appended
    up_running,         \* single file uploads in flight
    up_zip_running,     \* the upload of the zip is in flight
    up_temp,            \* the temporary zip file is open
    up_zip,             \* what zipped_directory was given and did
    semaphore,          \* OutputUploader._semaphore: free slots
    \* ---- receipt transfer command
    tr_mode,            \* "once" or "daemon"
    tr_pc,              \* position of Command.handle
    tr_phase,           \* which part of run_once / run_in_loop is running
    cu_pages,           \* pages catch_up has still to go through
    cu_pc,              \* position of catch_up within its iteration
    ku_pc,              \* position of keep_up within its iteration
    cu_miners,          \* current_loop_miners of catch_up
    ku_miners,          \* current_loop_miners of keep_up
    cu_switch,          \* what catch_up's last consultation of the switch read
    ku_switch,          \* what keep_up's last consultation of the switch read
    enabled,            \* DYNAMIC_RECEIPT_TRANSFER_ENABLED
    miners_now,         \* what miners() returns now
    tr_log,             \* ReceiptsTransfer.transfer calls made
    tr_run,             \* calls of run_once / run_in_loop so far
    orphans,            \* coroutines of ended runs that asyncio.gather left running
    \* ---- the block scan task in the celery worker processes
    lock_holder,        \* process holding the ALLOWANCE_FETCHING lock, 0 if free
    task_pc,            \* position of each process's run of the task
    task_result,        \* how the run went: Locked, returned, Exception
    task_writes,        \* whether the run changed the allowance state
    allowance_state,    \* scans whose results are stored
    queued,             \* runs the task queued with .delay()
    \* ---- allowance ledger
    earned,             \* AllowanceCell: seconds earned per (miner, class) and block
    scanned,            \* the highest block credited
    ledger,             \* the reservations: key, state, seconds held per block
    res_last,           \* the last ledger operation and its outcome
    \* ---- out-of-band reports of the facilitator
    cheated,            \* OrganicJob.cheated: the jobs reported as cheated
    \* ---- consumer threads inside set_starting_block
    rq_pc,              \* position of each thread in set_starting_block
    rq_block,           \* the block_number the thread was called with
    rq_max,             \* the value of max(...) the thread computed
    rq_calls,           \* calls of set_starting_block made so far
    requested,          \* the block numbers requested so far
    rq_first,           \* the block number of the first call made, 0 before it
    \* ---- the SuperTensor of each worker thread
    whandle,            \* the SuperTensor the worker constructed last: 1 or 2 in turn
    \* ---- one call of upload_post / upload_put under @retry
    rt_pc,              \* position of the wrapper
    rt_method,          \* "post" or "put"
    rt_i,               \* the loop variable i of the wrapper
    rt_delay,           \* delay
    rt_fp,              \* position of the file object fp
    rt_log,             \* the attempts made: where fp stood when sending began, outcome
    rt_sleeps,          \* the asyncio.sleep calls made: their delays
    rt_result,          \* what the call returned or raised
    \* ---- one cache backend object and its callers
    bk_pc,              \* "new", "ready", or "TypeError" when the constructor raised
    bk_cls,             \* the class instantiated
    bk_store,           \* the backend's entries
    bk_given,           \* the value handed to the last put of each (kind, block)
    bk_last,            \* the last get: its kind, block and result
    bk_puts,            \* puts made so far
    \* ---- threads calling supertensor()
    st_pc,              \* position of each thread in supertensor()
    st_calls,           \* calls each thread has made
    st_ret,             \* what the thread's last call returned or raised
    supertensor_instance, \* the module global _supertensor_instance, 0 for None
    constructed         \* the PrecachingSuperTensor objects constructed: their settings

routeVars == <<now, online_count, blacklist, started_receipts, finished_receipts,
               reservations, picked>>
jobVars == <<pc, trusted, stage, job, db_job, exc, outcome, save_events,
             updates, events, contacted, disable_trusted_events>>
cacheVars == <<closing, cache, throw_on_cache_miss, enable_workers, task_queue,
               highest_block_requested, highest_block_submitted, current_block,
               wpc, wtask, ppc, close_pc, the_end_puts, ret, reads>>
oracleVars == <<archive_configured, o_pc, o_op, o_step, o_outer, o_inner, o_cached,
                o_timeouts, o_last, o_result>>
uploadVars == <<up_kind, up_pc, up_left, up_sys, up_tasks, up_running, up_zip_running,
                up_temp, up_zip, semaphore>>
transferVars == <<tr_mode, tr_pc, tr_phase, cu_pages, cu_pc, ku_pc, cu_miners,
                  ku_miners, cu_switch, ku_switch, enabled, miners_now, tr_log,
                  tr_run, orphans>>
taskVars == <<lock_holder, task_pc, task_result, task_writes, allowance_state, queued>>
ledgerVars == <<earned, scanned, ledger, res_last>>
reportVars == <<cheated>>
requestVars == <<rq_pc, rq_block, rq_max, rq_calls, requested, rq_first>>
handleVars == <<whandle>>
retryVars == <<rt_pc, rt_method, rt_i, rt_delay, rt_fp, rt_log, rt_sleeps, rt_result>>
backendVars == <<bk_pc, bk_cls, bk_store, bk_given, bk_last, bk_puts>>
singletonVars == <<st_pc, st_calls, st_ret, supertensor_instance, constructed>>
moreVars == <<retryVars, backendVars, singletonVars>>
extVars == <<oracleVars, uploadVars, transferVars, taskVars, ledgerVars, reportVars, requestVars, handleVars, moreVars>>
coreVars == <<routeVars, jobVars, cacheVars>>
vars == <<coreVars, extVars>>

(***************************************************************************)
(* Bounds of the model.                                                    *)
(***************************************************************************)
NumJobs == 2
NumUuids == 3
MaxTime == 1
MaxOnline == 2
MaxExcuses == 2
MaxForeignReceipts == 2
MaxBlock == 1
MaxReads == 2
cutoff_page == 1
current_page == 4
MaxTransfers == 4
MaxRuns == 2
NumKeys == 2
MaxLedgerBlock == 2
MaxReservations == 2
MaxEarned == 2
MaxSeconds == 3
NumProcs == 3
MaxScans == 2
NumUploaders == 2
MaxUploads == 3
MaxWait == 2
NumConsumers == 2
MaxRequestBlock == 3
MaxRequests == 3
MaxPutBlock == 2
MaxDatum == 2
MaxPuts == 3
NumCallers == 3
MaxCalls == 2
\* the model's limits of zipped_directory, smaller than the program's 1000 entries and
\* 2147483648 bytes
MAX_NUMBER_OF_FILES == 2
max_size_bytes == 2
\* the model runs N_THREADS workers and prefetches CACHE_AHEAD blocks, fewer than the
\* program's 10 and 10
N_THREADS == 2
CACHE_AHEAD == 1

Jobs == 1..NumJobs
Uuids == 1..NumUuids
Miners == {"m1", "m2"}
TRUSTED_MINER_FAKE_KEY == "trusted"
Unset == "unset"

\* ---- prefetching chain oracle: values and idle state
Kinds == {"NEURONS", "BLOCK_TIMESTAMP", "BLOCK_HASH", "SUBNET_STATE", "VALIDATORS"}
TaskType == Kinds \cup {"THE_END"}
Blocks == 1..MaxBlock
Workers == 1..N_THREADS
None == -1
NoValue == <<>>
NoTask == <<"none", 0>>
EmptyCache == [k \in Kinds |-> [b \in Blocks |-> NoValue]]
Ret(kind, block, result, value, chain_read) ==
    [kind |-> kind, block |-> block, outcome |-> result, value |-> value,
     chain_read |-> chain_read]
NoRet == Ret("none", 0, "none", NoValue, FALSE)

\* no prefetching oracle constructed
CacheIdle ==
    /\ closing = FALSE
    /\ cache = EmptyCache
    /\ throw_on_cache_miss = FALSE
    /\ enable_workers = FALSE
    /\ task_queue = <<>>
    /\ highest_block_requested = None
    /\ highest_block_submitted = None
    /\ current_block = 0
    /\ wpc = [w \in Workers |-> "off"]
    /\ wtask = [w \in Workers |-> NoTask]
    /\ ppc = "off"
    /\ close_pc = "open"
    /\ the_end_puts = 0
    /\ ret = NoRet
    /\ reads = 0

(***************************************************************************)
(* Idle states of the further subsystems.                                  *)
(***************************************************************************)
NoAttempt == [fallback |-> FALSE, lite |-> "none", arch |-> "none",
              sources |-> <<>>, result |-> "none"]

\* no chain read operation in progress
OracleIdle ==
    /\ archive_configured = FALSE
    /\ o_pc = "idle"
    /\ o_op = "none"
    /\ o_step = 0
    /\ o_outer = 0
    /\ o_inner = <<>>
    /\ o_cached = {}
    /\ o_timeouts = 0
    /\ o_last = NoAttempt
    /\ o_result = "none"

MAX_CONCURRENT_UPLOADS == 3
NoZip == [entries |-> 0, size |-> 0, result |-> "none"]

\* no upload requested
UploadIdle ==
    /\ up_kind = [u \in 1..NumUploaders |-> "none"]
    /\ up_pc = [u \in 1..NumUploaders |-> "idle"]
    /\ up_left = [u \in 1..NumUploaders |-> 0]
    /\ up_sys = [u \in 1..NumUploaders |-> FALSE]
    /\ up_tasks = [u \in 1..NumUploaders |-> 0]
    /\ up_running = [u \in 1..NumUploaders |-> 0]
    /\ up_zip_running = [u \in 1..NumUploaders |-> FALSE]
    /\ up_temp = [u \in 1..NumUploaders |-> FALSE]
    /\ up_zip = [u \in 1..NumUploaders |-> NoZip]
    /\ semaphore = MAX_CONCURRENT_UPLOADS

\* compute_horde.receipts.store.local.N_ACTIVE_PAGES
N_ACTIVE_PAGES == 2
SwitchValues == {"true", "false", "unset"}
MinerSets == {"miners_a", "miners_b"}

\* the receipt transfer command is not running
TransferIdle ==
    /\ tr_mode = "none" /\ tr_pc = "idle" /\ tr_phase = "none"
    /\ cu_pages = <<>> /\ cu_pc = "off" /\ ku_pc = "off"
    /\ cu_miners = "none" /\ ku_miners = "none"
    /\ cu_switch = "none" /\ ku_switch = "none"
    /\ enabled = "true"
    /\ miners_now = "miners_a"
    /\ tr_log = <<>>
    /\ tr_run = 0 /\ orphans = {}

\* no run of the block scan task
TaskIdle ==
    /\ lock_holder = 0
    /\ task_pc = [p \in 1..NumProcs |-> "idle"]
    /\ task_result = [p \in 1..NumProcs |-> "none"]
    /\ task_writes = [p \in 1..NumProcs |-> 0]
    /\ allowance_state = 0
    /\ queued = 0

\* an empty allowance ledger
LedgerIdle ==
    /\ earned = [k \in 1..NumKeys |-> [b \in 1..MaxLedgerBlock |-> 0]]
    /\ scanned = 0
    /\ ledger = [i \in 1..MaxReservations |->
                    [key |-> 0, state |-> "none", alloc |-> [b \in 1..MaxLedgerBlock |-> 0]]]
    /\ res_last = [op |-> "none", id |-> 0, outcome |-> "none", required |-> 0,
                   available |-> 0, had |-> 0, count |-> 0]

\* no job reported as cheated
ReportIdle == cheated = {}

\* no consumer thread inside set_starting_block
RequestIdle ==
    /\ rq_pc = [t \in 1..NumConsumers |-> "idle"]
    /\ rq_block = [t \in 1..NumConsumers |-> 0]
    /\ rq_max = [t \in 1..NumConsumers |-> 0]
    /\ rq_calls = 0
    /\ requested = {}
    /\ rq_first = 0

\* the workers' SuperTensors are not followed
HandleIdle == whandle = [w \in Workers |-> 0]

\* no call of upload_post / upload_put
RetryIdle ==
    /\ rt_pc = "idle" /\ rt_method = "none" /\ rt_i = 0 /\ rt_delay = 0 /\ rt_fp = 0
    /\ rt_log = <<>> /\ rt_sleeps = <<>> /\ rt_result = "none"

\* the entries of a backend: a value or NoValue for each (kind, block)
NoEntries == [k \in Kinds |-> [b \in 1..MaxPutBlock |-> NoValue]]

\* no cache backend constructed
BackendIdle ==
    /\ bk_pc = "new" /\ bk_cls = "none" /\ bk_store = NoEntries /\ bk_given = NoEntries
    /\ bk_last = [op |-> "none", kind |-> "NEURONS", block |-> 1, result |-> NoValue]
    /\ bk_puts = 0

\* no call of supertensor() made
SingletonIdle ==
    /\ st_pc = [t \in 1..NumCallers |-> "idle"]
    /\ st_calls = [t \in 1..NumCallers |-> 0]
    /\ st_ret = [t \in 1..NumCallers |-> [how |-> "none", obj |-> 0]]
    /\ supertensor_instance = 0
    /\ constructed = <<>>

MoreIdle ==
    /\ RetryIdle
    /\ BackendIdle
    /\ SingletonIdle

ExtIdle ==
    /\ HandleIdle
    /\ RequestIdle
    /\ MoreIdle
    /\ ReportIdle
    /\ OracleIdle
    /\ UploadIdle
    /\ TransferIdle
    /\ TaskIdle
    /\ LedgerIdle

(***************************************************************************)
(* Miner router (section 4.4): pick_miner_for_job_request.                 *)
(***************************************************************************)
\* DYNAMIC_ROUTING_PRELIMINARY_RESERVATION_TIME_SECONDS
T_prelim == 1
\* the configured blacklist duration
BLACKLIST_TIME == 1
\* ttl of a JobStartedReceipt
RECEIPT_TTL == 1

ForeignUuids == {100 + i : i \in 1..MaxForeignReceipts}

\* step 2: blacklist expiration honored
Blacklisted_forever(m) == \E b \in blacklist : b.miner = m

Blacklisted(m) == \E b \in blacklist : b.miner = m /\ b.expires_at > now

\* step 2: the candidate set
Candidates_offline == {m \in Miners : ~Blacklisted(m)}

Candidates == {m \in Miners : online_count[m] > 0 /\ ~Blacklisted(m)}

\* step 3: JobStartedReceipts of a miner within their TTL
ActiveStartedReceipts(m) ==
    {r \in started_receipts : r.miner = m /\ r.timestamp <= now /\ now - r.timestamp < r.ttl}

Busy_strict(m) == Cardinality(ActiveStartedReceipts(m)) > online_count[m]

Busy(m) == Cardinality(ActiveStartedReceipts(m)) >= online_count[m]

\* step 4: a preliminary reservation is live while younger than T_prelim and its
\* job has no JobFinishedReceipt
LiveReservation_unfinished(r) == now - r.created_at < T_prelim

LiveReservation_forever(r) == r.job_uuid \notin finished_receipts

LiveReservation(r) == now - r.created_at < T_prelim /\ r.job_uuid \notin finished_receipts

Reserved_ignored(m) == FALSE

Reserved(m) == \E r \in reservations : r.miner = m /\ LiveReservation(r)

AvailableMiners == {m \in Candidates : ~Busy(m) /\ ~Reserved(m)}

\* steps 1-5: the possible results of a pick (the highest allowance is any available
\* miner: the allowance ledger is not part of this selection model)
PickResults(is_trusted) ==
    IF is_trusted THEN {TRUSTED_MINER_FAKE_KEY}
    ELSE IF Candidates = {} THEN {"NoMinerForExecutorType"}
    ELSE IF AvailableMiners = {} THEN {"AllMinersBusy"}
    ELSE AvailableMiners

\* step 6: selection and preliminary reservation in one transaction
pick_miner_for_job_request(u, is_trusted, m) ==
    /\ m \in PickResults(is_trusted)
    /\ picked' = [picked EXCEPT ![u] = m]
    /\ reservations' = IF m \in Miners
                        THEN reservations \cup {[job_uuid |-> u, miner |-> m, created_at |-> now]}
                        ELSE reservations

RouteInit ==
    /\ now = 0
    /\ online_count \in [Miners -> 0..MaxOnline]
    /\ blacklist = {}
    /\ started_receipts = {}
    /\ finished_receipts = {}
    /\ reservations = {}
    /\ picked = [u \in Uuids |-> Unset]

Tick ==
    /\ now < MaxTime
    /\ now' = now + 1
    /\ UNCHANGED <<online_count, blacklist, started_receipts, finished_receipts,
                   reservations, picked>>
    /\ UNCHANGED jobVars
    /\ UNCHANGED <<cacheVars, extVars>>

\* a pick issued on its own (tests/test_job_routing.py)
Pick(u, m) ==
    /\ picked[u] = Unset
    /\ pick_miner_for_job_request(u, FALSE, m)
    /\ UNCHANGED <<now, online_count, blacklist, started_receipts, finished_receipts>>
    /\ UNCHANGED jobVars
    /\ UNCHANGED <<cacheVars, extVars>>

\* a JobStartedReceipt of another validator's job arrives (receipt transfer)
InsertJobStartedReceipt(x, m) ==
    /\ \A r \in started_receipts : r.job_uuid # x
    /\ started_receipts' = started_receipts \cup
           {[job_uuid |-> x, miner |-> m, timestamp |-> now, ttl |-> RECEIPT_TTL]}
    /\ UNCHANGED <<now, online_count, blacklist, finished_receipts, reservations, picked>>
    /\ UNCHANGED jobVars
    /\ UNCHANGED <<cacheVars, extVars>>

\* a JobFinishedReceipt for a picked job arrives
InsertJobFinishedReceipt(u) ==
    /\ picked[u] \in Miners
    /\ u \notin finished_receipts
    /\ finished_receipts' = finished_receipts \cup {u}
    /\ UNCHANGED <<now, online_count, blacklist, started_receipts, reservations, picked>>
    /\ UNCHANGED jobVars
    /\ UNCHANGED <<cacheVars, extVars>>

(***************************************************************************)
(* Excuse policy (section 4.4): job_excuses.filter_valid_excuse_receipts   *)
(* and job_excuses.get_expected_miner_executor_count.                      *)
(***************************************************************************)
\* DYNAMIC_MINIMUM_VALIDATOR_STAKE_FOR_EXCUSE
MINIMUM_VALIDATOR_STAKE_FOR_EXCUSE == 1000

DEFAULT_EXECUTOR_CLASS == "default"

\* the excuse receipts a miner may attach to a decline
ExcuseReceipts ==
    { [job_uuid |-> "e1", miner_hotkey |-> "m1", timestamp |-> 0,
       executor_class |-> "default", is_organic |-> TRUE, validator_stake |-> 1000],
      [job_uuid |-> "e2", miner_hotkey |-> "m1", timestamp |-> 0,
       executor_class |-> "default", is_organic |-> TRUE, validator_stake |-> 2000],
      [job_uuid |-> "e3", miner_hotkey |-> "m2", timestamp |-> 0,
       executor_class |-> "default", is_organic |-> TRUE, validator_stake |-> 2000],
      [job_uuid |-> "e4", miner_hotkey |-> "m1", timestamp |-> 1,
       executor_class |-> "default", is_organic |-> TRUE, validator_stake |-> 2000],
      [job_uuid |-> "e5", miner_hotkey |-> "m1", timestamp |-> 0,
       executor_class |-> "other", is_organic |-> TRUE, validator_stake |-> 2000],
      [job_uuid |-> "e6", miner_hotkey |-> "m1", timestamp |-> 0,
       executor_class |-> "default", is_organic |-> FALSE, validator_stake |-> 2000],
      [job_uuid |-> "e7", miner_hotkey |-> "m1", timestamp |-> 0,
       executor_class |-> "default", is_organic |-> TRUE, validator_stake |-> 999] }

ReceiptLists == {rs \in SUBSET ExcuseReceipts : Cardinality(rs) <= MaxExcuses}

filter_valid_excuse_receipts(receipts_to_check, check_time, executor_class, min_stake, miner_hotkey) ==
    {r \in receipts_to_check :
        /\ r.timestamp <= check_time
        /\ r.executor_class = executor_class
        /\ r.is_organic
        /\ r.miner_hotkey = miner_hotkey
        /\ r.validator_stake >= min_stake}

get_expected_miner_executor_count(miner_hotkey) ==
    IF miner_hotkey \in Miners THEN online_count[miner_hotkey] ELSE 0

(***************************************************************************)
(* Job driver (section 4.5): organic_jobs/miner_driver.py.                 *)
(***************************************************************************)
\* miner_client.my_hotkey: the validator's own hotkey
MY_HOTKEY == "validator"

NoMsg == [type |-> "none", reason |-> "none", receipts |-> {}, error_type |-> "none"]
NoExc == [reason |-> "none", received |-> NoMsg]
NoJob == [miner |-> "none", on_trusted_miner |-> FALSE, status |-> "none",
          comment |-> "", error_type |-> "none"]
NoOutcome == [status |-> "none", comment |-> "", subtype |-> "none", success |-> FALSE,
              update |-> "none", message_type |-> "none", error_type |-> "none"]

OrganicJobError(reason, received) == [reason |-> reason, received |-> received]

V0DeclineJobRequest(reason, receipts) ==
    [type |-> "V0DeclineJobRequest", reason |-> reason, receipts |-> receipts,
     error_type |-> "none"]
V0ExecutorFailedRequest ==
    [type |-> "V0ExecutorFailedRequest", reason |-> "none", receipts |-> {},
     error_type |-> "none"]
V0JobFailedRequest(error_type) ==
    [type |-> "V0JobFailedRequest", reason |-> "none", receipts |-> {},
     error_type |-> error_type]

DeclineReasons == {"BUSY", "NOT_BUSY"}
ErrorTypes == {"none", "HUGGINGFACE_DOWNLOAD"}

\* status_update_from_job
status_update_from_job(j, status, message_type) ==
    [uuid |-> j, status |-> status, comment |-> job[j].comment,
     message_type |-> message_type]

\* an update sent by the facilitator layer itself, without a miner response
StatusUpdate(j, status, comment) ==
    [uuid |-> j, status |-> status, comment |-> comment, message_type |-> "no_response"]

\* save_job_execution_event
save_job_execution_event(subtype, long_description, data, success) ==
    [type |-> IF success THEN "MINER_ORGANIC_JOB_SUCCESS" ELSE "MINER_ORGANIC_JOB_FAILURE",
     subtype |-> subtype,
     long_description |-> long_description,
     data |-> data]

\* lines 175-181: trusted system events are ignored when the option is set
SaveEventWrites(on_trusted_miner, disable_trusted) == ~(on_trusted_miner /\ disable_trusted)

Branch(status, comment, subtype, update, message_type, error_type) ==
    [status |-> status, comment |-> comment, subtype |-> subtype, success |-> FALSE,
     update |-> update, message_type |-> message_type, error_type |-> error_type]

IsExcused_strict(n_valid_excuses, expected_executor_count) ==
    n_valid_excuses > expected_executor_count

\* line 273
IsExcused(n_valid_excuses, expected_executor_count) ==
    n_valid_excuses >= expected_executor_count

\* lines 248-298: the BUSY decline
BusyDeclineBranch(j, e) ==
    LET job_request_time == (CHOOSE r \in started_receipts : r.job_uuid = j).timestamp
        valid_excuses == filter_valid_excuse_receipts(e.received.receipts, job_request_time,
                             DEFAULT_EXECUTOR_CLASS, MINIMUM_VALIDATOR_STAKE_FOR_EXCUSE,
                             job[j].miner)
        expected_executor_count == get_expected_miner_executor_count(job[j].miner)
    IN  IF IsExcused(Cardinality(valid_excuses), expected_executor_count)
        THEN Branch("EXCUSED", "Miner properly excused job", "JOB_EXCUSED", "rejected",
                    "none", "none")
        ELSE Branch("FAILED", "Miner failed to excuse job", "JOB_REJECTED", "rejected",
                    "none", "none")

DeclineBranch_statusRejected ==
    Branch("REJECTED", "Miner declined job", "JOB_REJECTED", "rejected", "none", "none")

\* lines 300-310: any other decline
DeclineBranch ==
    Branch("FAILED", "Miner declined job", "JOB_REJECTED", "rejected", "none", "none")

JobFailedSubtype_generic(received) == "FAILURE"

\* lines 363-377: the subtype of a failed job
JobFailedSubtype(received) ==
    IF received.type = "V0JobFailedRequest" /\ received.error_type = "HUGGINGFACE_DOWNLOAD"
    THEN "ERROR_DOWNLOADING_FROM_HUGGINGFACE"
    ELSE "FAILURE"

\* lines 224-387: the except branch of drive_organic_job
HandleOrganicJobError(j, e) ==
    CASE e.reason = "MINER_CONNECTION_FAILED" ->
            Branch("FAILED", "Miner connection error", "MINER_CONNECTION_ERROR", "failed",
                   "none", "none")
      [] e.reason = "INITIAL_RESPONSE_TIMED_OUT" ->
            Branch("FAILED", "timed out waiting for initial response", "JOB_NOT_STARTED",
                   "failed", "none", "none")
      [] e.reason = "JOB_DECLINED" /\ e.received.type = "V0DeclineJobRequest"
            /\ e.received.reason = "BUSY" ->
            BusyDeclineBranch(j, e)
      [] e.reason = "JOB_DECLINED" /\ ~(e.received.type = "V0DeclineJobRequest"
            /\ e.received.reason = "BUSY") ->
            DeclineBranch
      [] e.reason = "EXECUTOR_READINESS_RESPONSE_TIMED_OUT" ->
            Branch("FAILED", "timed out while preparing executor", "JOB_NOT_STARTED",
                   "failed", "none", "none")
      [] e.reason = "STREAMING_JOB_READY_TIMED_OUT" ->
            Branch("FAILED", "Streaming job not ready", "JOB_NOT_STARTED", "failed",
                   "none", "none")
      [] e.reason = "EXECUTOR_FAILED" ->
            Branch("FAILED", "failed to start executor", "JOB_REJECTED", "failed",
                   "none", "none")
      [] e.reason = "FINAL_RESPONSE_TIMED_OUT" ->
            Branch("FAILED", "timed out after total_job_timeout seconds",
                   "JOB_EXECUTION_TIMEOUT", "failed", "none", "none")
      [] e.reason = "JOB_FAILED" ->
            Branch("FAILED", "Miner failed", JobFailedSubtype(e.received), "failed",
                   "V0JobFailedRequest",
                   IF e.received.type = "V0JobFailedRequest"
                   THEN e.received.error_type ELSE "none")

\* lines 210-222: the job finished
SuccessBranch ==
    [status |-> "COMPLETED", comment |-> "finished", subtype |-> "SUCCESS",
     success |-> TRUE, update |-> "completed", message_type |-> "V0JobFinishedRequest",
     error_type |-> "none"]

JobIdle ==
    /\ pc = [j \in Jobs |-> "idle"]
    /\ trusted = [j \in Jobs |-> FALSE]
    /\ stage = [j \in Jobs |-> "PENDING"]
    /\ job = [j \in Jobs |-> NoJob]
    /\ db_job = [j \in Jobs |-> "none"]
    /\ exc = [j \in Jobs |-> NoExc]
    /\ outcome = [j \in Jobs |-> NoOutcome]
    /\ save_events = [j \in Jobs |-> FALSE]
    /\ updates = [j \in Jobs |-> <<>>]
    /\ events = [j \in Jobs |-> <<>>]
    /\ contacted = {}

\* ---- facilitator layer -------------------------------------------------

\* the facilitator sends a job request; the validator acknowledges it (the requests
\* are served one after the other, as in tests/test_organic_jobs)
JobRequest(j, t) ==
    /\ pc[j] = "idle"
    /\ \A i \in Jobs : i < j => pc[i] \in {"done", "cancelled", "raised"}
    /\ trusted' = [trusted EXCEPT ![j] = t]
    /\ updates' = [updates EXCEPT ![j] = Append(@, StatusUpdate(j, "received", ""))]
    /\ pc' = [pc EXCEPT ![j] = "routing"]
    /\ UNCHANGED <<stage, job, db_job, exc, outcome, save_events, events, contacted,
                   disable_trusted_events>>
    /\ UNCHANGED routeVars
    /\ UNCHANGED <<cacheVars, extVars>>

RejectComment(err) ==
    IF err = "NoMinerForExecutorType" THEN "No executor for job request"
    ELSE "All miners busy"

\* the router picks a miner, or the request is rejected
Route(j, m) ==
    /\ pc[j] = "routing"
    /\ pick_miner_for_job_request(j, trusted[j], m)
    /\ IF m \in Miners \cup {TRUSTED_MINER_FAKE_KEY}
       THEN /\ pc' = [pc EXCEPT ![j] = "execute"]
            /\ UNCHANGED updates
       ELSE /\ pc' = [pc EXCEPT ![j] = "done"]
            /\ updates' = [updates EXCEPT ![j] =
                              Append(@, StatusUpdate(j, "rejected", RejectComment(m)))]
    /\ UNCHANGED <<trusted, stage, job, db_job, exc, outcome, save_events,
                   events, contacted, disable_trusted_events>>
    /\ UNCHANGED <<now, online_count, blacklist, started_receipts, finished_receipts>>
    /\ UNCHANGED <<cacheVars, extVars>>

\* a miner whose job ended FAILED is blacklisted for the configured duration
BlacklistAfter(j) ==
    IF db_job[j] = "FAILED" /\ job[j].miner \in Miners
    THEN blacklist \cup {[miner |-> job[j].miner, expires_at |-> now + BLACKLIST_TIME]}
    ELSE blacklist

AfterJob(j) ==
    /\ pc[j] = "returned"
    /\ blacklist' = BlacklistAfter(j)
    /\ pc' = [pc EXCEPT ![j] = "done"]
    /\ UNCHANGED <<trusted, stage, job, db_job, exc, outcome, save_events,
                   updates, events, contacted, disable_trusted_events>>
    /\ UNCHANGED <<now, online_count, started_receipts, finished_receipts, reservations,
                   picked>>
    /\ UNCHANGED <<cacheVars, extVars>>

\* DYNAMIC_JOB_CHEATED_BLACKLIST_TIME_SECONDS
JOB_CHEATED_BLACKLIST_TIME == 1

BlacklistCheated_none(j) == blacklist

\* the miner of a job reported as cheated is blacklisted for the configured time
BlacklistCheated(j) ==
    blacklist \cup {[miner |-> job[j].miner, expires_at |-> now + JOB_CHEATED_BLACKLIST_TIME]}

\* the facilitator reports a completed job as cheated (V0JobCheated, keyed by uuid):
\* the job is marked and its miner blacklisted, outside the job's driver
JobCheated(j) ==
    /\ pc[j] = "done"
    /\ db_job[j] = "COMPLETED"
    /\ j \notin cheated
    /\ cheated' = cheated \cup {j}
    /\ blacklist' = BlacklistCheated(j)
    /\ UNCHANGED jobVars
    /\ UNCHANGED <<now, online_count, started_receipts, finished_receipts, reservations,
                   picked>>
    /\ UNCHANGED <<cacheVars, oracleVars, uploadVars, transferVars, taskVars, ledgerVars,
                   requestVars, handleVars, moreVars>>

\* ---- execute_organic_job_request, lines 92-158 -------------------------
execute_organic_job_request(j) ==
    /\ pc[j] = "execute"
    /\ job' = [job EXCEPT ![j] = [miner |-> picked[j],
                                  on_trusted_miner |-> (picked[j] = TRUSTED_MINER_FAKE_KEY),
                                  status |-> "PENDING", comment |-> "",
                                  error_type |-> "none"]]
    /\ db_job' = [db_job EXCEPT ![j] = "PENDING"]
    /\ pc' = [pc EXCEPT ![j] = "drive"]
    /\ UNCHANGED <<trusted, stage, exc, outcome, save_events, updates, events,
                   contacted, disable_trusted_events>>
    /\ UNCHANGED routeVars
    /\ UNCHANGED <<cacheVars, extVars>>

\* ---- drive_organic_job, lines 175-200 ----------------------------------
DriveStart(j) ==
    /\ pc[j] = "drive"
    /\ save_events' = [save_events EXCEPT ![j] =
                          SaveEventWrites(job[j].on_trusted_miner, disable_trusted_events)]
    /\ pc' = [pc EXCEPT ![j] = "connect"]
    /\ UNCHANGED <<trusted, stage, job, db_job, exc, outcome, updates, events,
                   contacted, disable_trusted_events>>
    /\ UNCHANGED routeVars
    /\ UNCHANGED <<cacheVars, extVars>>

notify_job_accepted_twice(j) ==
    Append(Append(updates[j], status_update_from_job(j, "accepted", "V0AcceptJobRequest")),
           status_update_from_job(j, "accepted", "V0AcceptJobRequest"))

\* lines 183-186: the callback run_organic_job calls on acceptance
notify_job_accepted(j) ==
    Append(updates[j], status_update_from_job(j, "accepted", "V0AcceptJobRequest"))

\* ---- run_organic_job (compute_horde.miner_client.organic) --------------
Raise(j, e) ==
    /\ exc' = [exc EXCEPT ![j] = e]
    /\ pc' = [pc EXCEPT ![j] = "except"]

WaitStages == {"SENT", "ACCEPTED", "READY", "RUNNING", "VOLUMES_READY", "DONE"}

\* connect and send the initial job request with its JobStartedReceipt
Connect(j, ok) ==
    /\ pc[j] = "connect"
    /\ contacted' = contacted \cup {<<j, job[j].miner>>}
    /\ IF ok
       THEN /\ stage' = [stage EXCEPT ![j] = "SENT"]
            /\ started_receipts' = started_receipts \cup
                  {[job_uuid |-> j, miner |-> job[j].miner, timestamp |-> now,
                    ttl |-> RECEIPT_TTL]}
            /\ pc' = [pc EXCEPT ![j] = "wait"]
            /\ UNCHANGED exc
       ELSE /\ Raise(j, OrganicJobError("MINER_CONNECTION_FAILED", NoMsg))
            /\ UNCHANGED <<stage, started_receipts>>
    /\ UNCHANGED <<trusted, job, db_job, outcome, save_events, updates, events,
                   disable_trusted_events>>
    /\ UNCHANGED <<now, online_count, blacklist, finished_receipts, reservations, picked>>
    /\ UNCHANGED <<cacheVars, extVars>>

MinerAccept(j) ==
    /\ pc[j] = "wait" /\ stage[j] = "SENT"
    /\ stage' = [stage EXCEPT ![j] = "ACCEPTED"]
    /\ updates' = [updates EXCEPT ![j] = notify_job_accepted(j)]
    /\ UNCHANGED <<pc, trusted, job, db_job, exc, outcome, save_events, events,
                   contacted, disable_trusted_events>>
    /\ UNCHANGED routeVars
    /\ UNCHANGED <<cacheVars, extVars>>

\* ExecutorReady, JobRequest sent, VolumesReady, ExecutionDone
NextStage(st) ==
    CASE st = "ACCEPTED" -> "READY"
      [] st = "READY" -> "RUNNING"
      [] st = "RUNNING" -> "VOLUMES_READY"
      [] st = "VOLUMES_READY" -> "DONE"

MinerProgress(j) ==
    /\ pc[j] = "wait" /\ stage[j] \in {"ACCEPTED", "READY", "RUNNING", "VOLUMES_READY"}
    /\ stage' = [stage EXCEPT ![j] = NextStage(stage[j])]
    /\ UNCHANGED <<pc, trusted, job, db_job, exc, outcome, save_events, updates,
                   events, contacted, disable_trusted_events>>
    /\ UNCHANGED routeVars
    /\ UNCHANGED <<cacheVars, extVars>>

\* Finished: the JobFinishedReceipt is written and the result returned
MinerFinished(j) ==
    /\ pc[j] = "wait" /\ stage[j] = "DONE"
    /\ stage' = [stage EXCEPT ![j] = "COMPLETED"]
    /\ finished_receipts' = finished_receipts \cup {j}
    /\ pc' = [pc EXCEPT ![j] = "finished"]
    /\ UNCHANGED <<trusted, job, db_job, exc, outcome, save_events, updates,
                   events, contacted, disable_trusted_events>>
    /\ UNCHANGED <<now, online_count, blacklist, started_receipts, reservations, picked>>
    /\ UNCHANGED <<cacheVars, extVars>>

MinerDecline(j, reason, receipts) ==
    /\ pc[j] = "wait" /\ stage[j] \in WaitStages
    /\ (reason = "BUSY" /\ stage[j] = "SENT") \/ receipts = {}
    /\ stage' = [stage EXCEPT ![j] = "DECLINED"]
    /\ Raise(j, OrganicJobError("JOB_DECLINED", V0DeclineJobRequest(reason, receipts)))
    /\ UNCHANGED <<trusted, job, db_job, outcome, save_events, updates,
                   events, contacted, disable_trusted_events>>
    /\ UNCHANGED routeVars
    /\ UNCHANGED <<cacheVars, extVars>>

MinerExecutorFailed(j) ==
    /\ pc[j] = "wait" /\ stage[j] \in WaitStages
    /\ stage' = [stage EXCEPT ![j] = "EXECUTOR_FAILED"]
    /\ Raise(j, OrganicJobError("EXECUTOR_FAILED", V0ExecutorFailedRequest))
    /\ UNCHANGED <<trusted, job, db_job, outcome, save_events, updates,
                   events, contacted, disable_trusted_events>>
    /\ UNCHANGED routeVars
    /\ UNCHANGED <<cacheVars, extVars>>

MinerJobFailed(j, error_type) ==
    /\ pc[j] = "wait" /\ stage[j] \in WaitStages
    /\ stage' = [stage EXCEPT ![j] = "JOB_FAILED"]
    /\ Raise(j, OrganicJobError("JOB_FAILED", V0JobFailedRequest(error_type)))
    /\ UNCHANGED <<trusted, job, db_job, outcome, save_events, updates,
                   events, contacted, disable_trusted_events>>
    /\ UNCHANGED routeVars
    /\ UNCHANGED <<cacheVars, extVars>>

\* the failure reasons of a timeout in a stage: executor_ready_timeout also bounds
\* READY -> VOLUMES_READY for a streaming job, total_job_timeout bounds every stage
TimeoutReasons(st) ==
    CASE st = "SENT" -> {"INITIAL_RESPONSE_TIMED_OUT"}
      [] st = "ACCEPTED" -> {"EXECUTOR_READINESS_RESPONSE_TIMED_OUT"}
      [] st \in {"READY", "RUNNING"} ->
            {"STREAMING_JOB_READY_TIMED_OUT", "FINAL_RESPONSE_TIMED_OUT"}
      [] st \in {"VOLUMES_READY", "DONE"} -> {"FINAL_RESPONSE_TIMED_OUT"}

Timeout(j, reason) ==
    /\ pc[j] = "wait" /\ stage[j] \in WaitStages
    /\ reason \in TimeoutReasons(stage[j])
    /\ Raise(j, OrganicJobError(reason, NoMsg))
    /\ UNCHANGED <<trusted, stage, job, db_job, outcome, save_events, updates,
                   events, contacted, disable_trusted_events>>
    /\ UNCHANGED routeVars
    /\ UNCHANGED <<cacheVars, extVars>>

\* ---- drive_organic_job, lines 202-387 ----------------------------------
\* lines 248-256: the BUSY decline reads the job's JobStartedReceipt with
\* objects.aget, which raises DoesNotExist when there is no such row
DoesNotExist(j, e) ==
    /\ e.reason = "JOB_DECLINED" /\ e.received.type = "V0DeclineJobRequest"
    /\ e.received.reason = "BUSY"
    /\ \A r \in started_receipts : r.job_uuid # j

\* the branch is chosen, the job's fields are set and the job is saved; an exception
\* raised inside the except branch leaves drive_organic_job
SaveJob(j) ==
    /\ pc[j] \in {"except", "finished"}
    /\ IF pc[j] = "except" /\ DoesNotExist(j, exc[j])
       THEN /\ pc' = [pc EXCEPT ![j] = "raised"]
            /\ UNCHANGED <<outcome, job, db_job>>
       ELSE /\ LET o == IF pc[j] = "finished" THEN SuccessBranch
                        ELSE HandleOrganicJobError(j, exc[j])
               IN /\ outcome' = [outcome EXCEPT ![j] = o]
                  /\ job' = [job EXCEPT ![j].status = o.status, ![j].comment = o.comment,
                                        ![j].error_type = o.error_type]
                  /\ db_job' = [db_job EXCEPT ![j] = o.status]
            /\ pc' = [pc EXCEPT ![j] = "save_event"]
    /\ exc' = [exc EXCEPT ![j] = NoExc]
    /\ UNCHANGED <<trusted, stage, save_events, updates, events, contacted,
                   disable_trusted_events>>
    /\ UNCHANGED routeVars
    /\ UNCHANGED <<cacheVars, extVars>>

\* save_event(subtype=..., long_description=comment)
SaveEvent(j) ==
    /\ pc[j] = "save_event"
    /\ events' = [events EXCEPT ![j] =
          IF save_events[j]
          THEN Append(@, save_job_execution_event(outcome[j].subtype, job[j].comment,
                            [job_uuid |-> j, miner_hotkey |-> MY_HOTKEY],
                            outcome[j].success))
          ELSE @]
    /\ pc' = [pc EXCEPT ![j] = "notify"]
    /\ UNCHANGED <<trusted, stage, job, db_job, exc, outcome, save_events,
                   updates, contacted, disable_trusted_events>>
    /\ UNCHANGED routeVars
    /\ UNCHANGED <<cacheVars, extVars>>

\* notify_callback(status_update_from_job(job, ...)) and return
Notify(j) ==
    /\ pc[j] = "notify"
    /\ updates' = [updates EXCEPT ![j] =
          Append(@, status_update_from_job(j, outcome[j].update, outcome[j].message_type))]
    /\ pc' = [pc EXCEPT ![j] = "returned"]
    /\ UNCHANGED <<trusted, stage, job, db_job, exc, outcome, save_events, events,
                   contacted, disable_trusted_events>>
    /\ UNCHANGED routeVars
    /\ UNCHANGED <<cacheVars, extVars>>

\* the driver's task is cancelled at an await: CancelledError is no OrganicJobError,
\* so it leaves drive_organic_job through no handler; the frames of the driver and
\* of run_organic_job are gone, what was persisted and sent stays
DriverPcs == {"drive", "connect", "wait", "except", "finished", "save_event", "notify"}

Cancel(j) ==
    /\ pc[j] \in DriverPcs
    /\ pc' = [pc EXCEPT ![j] = "cancelled"]
    /\ exc' = [exc EXCEPT ![j] = NoExc]
    /\ outcome' = [outcome EXCEPT ![j] = NoOutcome]
    /\ save_events' = [save_events EXCEPT ![j] = FALSE]
    /\ job' = [job EXCEPT ![j] = NoJob]
    /\ stage' = [stage EXCEPT ![j] = "CANCELLED"]
    /\ UNCHANGED <<trusted, db_job, updates, events, contacted, disable_trusted_events>>
    /\ UNCHANGED routeVars
    /\ UNCHANGED <<cacheVars, extVars>>

\* the fixture of tests/test_organic_jobs: one miner with a manifest
InitJob ==
    /\ RouteInit
    /\ online_count["m1"] > 0
    /\ online_count["m2"] = 0
    /\ JobIdle
    /\ disable_trusted_events \in BOOLEAN
    /\ CacheIdle
    /\ ExtIdle

NextJob ==
    \/ Tick
    \/ \E j \in Jobs, t \in BOOLEAN : JobRequest(j, t)
    \/ \E j \in Jobs, m \in Miners \cup {TRUSTED_MINER_FAKE_KEY, "NoMinerForExecutorType",
                                        "AllMinersBusy"} : Route(j, m)
    \/ \E j \in Jobs : execute_organic_job_request(j)
    \/ \E j \in Jobs : DriveStart(j)
    \/ \E j \in Jobs, ok \in BOOLEAN : Connect(j, ok)
    \/ \E j \in Jobs : MinerAccept(j)
    \/ \E j \in Jobs : MinerProgress(j)
    \/ \E j \in Jobs : MinerFinished(j)
    \/ \E j \in Jobs, reason \in DeclineReasons, receipts \in ReceiptLists :
          MinerDecline(j, reason, receipts)
    \/ \E j \in Jobs : MinerExecutorFailed(j)
    \/ \E j \in Jobs, error_type \in ErrorTypes : MinerJobFailed(j, error_type)
    \/ \E j \in Jobs, reason \in {"INITIAL_RESPONSE_TIMED_OUT",
             "EXECUTOR_READINESS_RESPONSE_TIMED_OUT", "STREAMING_JOB_READY_TIMED_OUT",
             "FINAL_RESPONSE_TIMED_OUT"} : Timeout(j, reason)
    \/ \E j \in Jobs : SaveJob(j)
    \/ \E j \in Jobs : SaveEvent(j)
    \/ \E j \in Jobs : Notify(j)
    \/ \E j \in Jobs : AfterJob(j)
    \/ \E j \in Jobs : Cancel(j)
    \/ \E j \in Jobs : JobCheated(j)

SpecJob == InitJob /\ [][NextJob]_vars

InitRouting ==
    /\ RouteInit
    /\ JobIdle
    /\ disable_trusted_events = FALSE
    /\ CacheIdle
    /\ ExtIdle

NextRouting ==
    \/ Tick
    \/ \E u \in Uuids, m \in Miners \cup {"NoMinerForExecutorType", "AllMinersBusy"} :
          Pick(u, m)
    \/ \E x \in ForeignUuids, m \in Miners : InsertJobStartedReceipt(x, m)
    \/ \E u \in Uuids : InsertJobFinishedReceipt(u)

SpecRouting == InitRouting /\ [][NextRouting]_vars

(***************************************************************************)
(* Prefetching chain oracle: PrecachingSuperTensor (supertensor.py).       *)
(***************************************************************************)
\* what the chain holds for (kind, block)
ChainValue(k, b) == <<k, b>>

\* InMemoryCache.put_*
Put(c, k, b, v) == [c EXCEPT ![k][b] = v]

Max(a, b) == IF a >= b THEN a ELSE b

\* lines 549-552
set_starting_block(b) ==
    /\ highest_block_requested' =
          Max(IF highest_block_requested = None THEN 0 ELSE highest_block_requested, b)
    /\ highest_block_submitted' =
          IF highest_block_submitted = None THEN b - 1 ELSE highest_block_submitted

ThreadVars == <<closing, throw_on_cache_miss, enable_workers, task_queue, current_block,
                wpc, wtask, ppc, close_pc, the_end_puts>>

ConsumerRead_fill_on_throw(k, b, ok, filled) ==
    /\ close_pc = "open"
    /\ reads < MaxReads
    /\ reads' = reads + 1
    /\ set_starting_block(b)
    /\ IF cache[k][b] # NoValue
       THEN ret' = Ret(k, b, "hit", cache[k][b], FALSE) /\ cache' = cache
       ELSE IF throw_on_cache_miss
       THEN ret' = Ret(k, b, "CacheMiss", NoValue, FALSE) /\ cache' = filled
       ELSE IF ok
       THEN ret' = Ret(k, b, "fetched", ChainValue(k, b), TRUE) /\ cache' = filled
       ELSE ret' = Ret(k, b, "error", NoValue, TRUE) /\ cache' = cache
    /\ UNCHANGED ThreadVars
    /\ UNCHANGED <<routeVars, jobVars, extVars>>

\* the shape of the consumer reads, lines 554-620: hit, CacheMiss, or the chain is read
\* (ok: the read returns) and the cache becomes `filled`
ConsumerRead(k, b, ok, filled) ==
    /\ close_pc = "open"
    /\ reads < MaxReads
    /\ reads' = reads + 1
    /\ set_starting_block(b)
    /\ IF cache[k][b] # NoValue
       THEN ret' = Ret(k, b, "hit", cache[k][b], FALSE) /\ cache' = cache
       ELSE IF throw_on_cache_miss
       THEN ret' = Ret(k, b, "CacheMiss", NoValue, FALSE) /\ cache' = cache
       ELSE IF ok
       THEN ret' = Ret(k, b, "fetched", ChainValue(k, b), TRUE) /\ cache' = filled
       ELSE ret' = Ret(k, b, "error", NoValue, TRUE) /\ cache' = cache
    /\ UNCHANGED ThreadVars
    /\ UNCHANGED <<routeVars, jobVars, extVars>>

\* lines 554-565
list_neurons(b, ok) ==
    ConsumerRead("NEURONS", b, ok, Put(cache, "NEURONS", b, ChainValue("NEURONS", b)))

\* lines 567-577: the value read from the chain is returned, not put into the cache
get_block_timestamp(b, ok) ==
    ConsumerRead("BLOCK_TIMESTAMP", b, ok, cache)

\* lines 579-591
get_block_hash(b, ok) ==
    ConsumerRead("BLOCK_HASH", b, ok, Put(cache, "BLOCK_HASH", b, ChainValue("BLOCK_HASH", b)))

\* lines 593-607
get_subnet_state(b, ok) ==
    ConsumerRead("SUBNET_STATE", b, ok,
                 Put(cache, "SUBNET_STATE", b, ChainValue("SUBNET_STATE", b)))

\* lines 609-620: on a miss SuperTensor.list_validators (lines 209-223) calls
\* self.list_neurons and self.get_subnet_state, which fill their own cache entries;
\* fail_at names the chain read that raises, if one does
list_validators(b, fail_at) ==
    LET miss == cache["VALIDATORS"][b] = NoValue /\ ~throw_on_cache_miss
        no_neurons == cache["NEURONS"][b] = NoValue
        c1 == IF no_neurons
              THEN Put(cache, "NEURONS", b, ChainValue("NEURONS", b)) ELSE cache
        no_state == cache["SUBNET_STATE"][b] = NoValue
        c2 == IF no_state
              THEN Put(c1, "SUBNET_STATE", b, ChainValue("SUBNET_STATE", b)) ELSE c1
    IN /\ close_pc = "open"
       /\ reads < MaxReads
       /\ fail_at = "neurons" => miss /\ no_neurons
       /\ fail_at = "subnet_state" => miss /\ no_state
       /\ reads' = reads + 1
       /\ set_starting_block(b)
       /\ IF cache["VALIDATORS"][b] # NoValue
          THEN /\ ret' = Ret("VALIDATORS", b, "hit", cache["VALIDATORS"][b], FALSE)
               /\ cache' = cache
          ELSE IF throw_on_cache_miss
          THEN ret' = Ret("VALIDATORS", b, "CacheMiss", NoValue, FALSE) /\ cache' = cache
          ELSE IF fail_at = "neurons"
          THEN ret' = Ret("VALIDATORS", b, "error", NoValue, TRUE) /\ cache' = cache
          ELSE IF fail_at = "subnet_state"
          THEN ret' = Ret("VALIDATORS", b, "error", NoValue, TRUE) /\ cache' = c1
          ELSE /\ ret' = Ret("VALIDATORS", b, "fetched", ChainValue("VALIDATORS", b),
                             no_neurons \/ no_state)
               /\ cache' = Put(c2, "VALIDATORS", b, ChainValue("VALIDATORS", b))
       /\ UNCHANGED ThreadVars
       /\ UNCHANGED <<routeVars, jobVars, extVars>>

\* ---- worker threads, lines 433-509 ---------------------------------------
WorkerFrame == UNCHANGED <<closing, throw_on_cache_miss, enable_workers,
                           highest_block_requested, highest_block_submitted,
                           current_block, ppc, close_pc, the_end_puts, ret, reads>>

\* lines 447-449: the closing flag is looked at before the queue
WorkerCheckClosing(w) ==
    /\ wpc[w] = "loop"
    /\ wpc' = [wpc EXCEPT ![w] = IF closing THEN "done" ELSE "get"]
    /\ UNCHANGED <<cache, task_queue, wtask>>
    /\ WorkerFrame
    /\ UNCHANGED <<routeVars, jobVars, extVars>>

\* lines 450-454: a blocking get; THE_END ends the thread
WorkerGet(w) ==
    /\ wpc[w] = "get"
    /\ task_queue # <<>>
    /\ task_queue' = Tail(task_queue)
    /\ IF Head(task_queue)[1] = "THE_END"
       THEN wpc' = [wpc EXCEPT ![w] = "done"] /\ UNCHANGED wtask
       ELSE /\ wpc' = [wpc EXCEPT ![w] = "task"]
            /\ wtask' = [wtask EXCEPT ![w] = Head(task_queue)]
    /\ UNCHANGED cache
    /\ WorkerFrame
    /\ UNCHANGED <<routeVars, jobVars, extVars>>

ChainResults == {"ok", "ArchiveSubtensorNotConfigured", "Exception"}

\* lines 455-509: a cached task is skipped; otherwise the chain is read and the value
\* put; ArchiveSubtensorNotConfigured is passed over, another exception is logged
\* and slept on; either way the worker starts over with a new SuperTensor
worker_task(w, res) ==
    /\ wpc[w] = "task"
    /\ LET k == wtask[w][1]
           b == wtask[w][2]
       IN IF cache[k][b] # NoValue
          THEN /\ res = "ok"
               /\ wpc' = [wpc EXCEPT ![w] = "loop"]
               /\ UNCHANGED cache
          ELSE /\ cache' = IF res = "ok" THEN Put(cache, k, b, ChainValue(k, b)) ELSE cache
               /\ wpc' = [wpc EXCEPT ![w] = IF res = "Exception" THEN "sleep" ELSE "loop"]
    /\ wtask' = [wtask EXCEPT ![w] = NoTask]
    /\ UNCHANGED task_queue
    /\ WorkerFrame

WorkerTask(w, res) ==
    /\ worker_task(w, res)
    /\ UNCHANGED <<routeVars, jobVars, extVars>>

\* line 507: time.sleep(1) is over
worker_sleep_over(w) ==
    /\ wpc[w] = "sleep"
    /\ wpc' = [wpc EXCEPT ![w] = "loop"]
    /\ UNCHANGED <<cache, task_queue, wtask>>
    /\ WorkerFrame

WorkerWake(w) ==
    /\ worker_sleep_over(w)
    /\ UNCHANGED <<routeVars, jobVars, extVars>>

\* ---- producer thread, lines 515-544 --------------------------------------
BlockTasks(b) ==
    <<<<"NEURONS", b>>, <<"BLOCK_TIMESTAMP", b>>, <<"BLOCK_HASH", b>>,
      <<"SUBNET_STATE", b>>, <<"VALIDATORS", b>>>>

\* one iteration of the loop; res is the outcome of get_current_block
produce_thread(res) ==
    /\ ppc = "loop"
    /\ IF closing
       THEN /\ res = "ok"
            /\ ppc' = "done"
            /\ UNCHANGED <<task_queue, highest_block_submitted>>
       ELSE IF res # "ok"
            \/ highest_block_requested = None \/ highest_block_submitted = None
            \/ highest_block_submitted - highest_block_requested >= CACHE_AHEAD
            \/ highest_block_submitted >= current_block
       THEN /\ ppc' = "sleep"
            /\ UNCHANGED <<task_queue, highest_block_submitted>>
       ELSE /\ task_queue' = task_queue \o BlockTasks(highest_block_submitted + 1)
            /\ highest_block_submitted' = highest_block_submitted + 1
            /\ UNCHANGED ppc
    /\ UNCHANGED <<closing, cache, throw_on_cache_miss, enable_workers,
                   highest_block_requested, current_block, wpc, wtask, close_pc,
                   the_end_puts, ret, reads>>
    /\ UNCHANGED <<routeVars, jobVars, extVars>>

\* time.sleep(0.1) or time.sleep(1) is over
ProducerWake ==
    /\ ppc = "sleep"
    /\ ppc' = "loop"
    /\ UNCHANGED <<closing, cache, throw_on_cache_miss, enable_workers, task_queue,
                   highest_block_requested, highest_block_submitted, current_block,
                   wpc, wtask, close_pc, the_end_puts, ret, reads>>
    /\ UNCHANGED <<routeVars, jobVars, extVars>>

\* ---- close, lines 622-627 ------------------------------------------------
TheEndTasks_short == N_THREADS - 1

\* line 625: one THE_END per worker
TheEndTasks == N_THREADS

Close ==
    /\ close_pc = "open"
    /\ closing' = TRUE
    /\ close_pc' = IF enable_workers /\ TheEndTasks > 0 THEN "put" ELSE "closed"
    /\ ret' = Ret("close", 0, "none", NoValue, FALSE)
    /\ UNCHANGED <<cache, throw_on_cache_miss, enable_workers, task_queue,
                   highest_block_requested, highest_block_submitted, current_block,
                   wpc, wtask, ppc, the_end_puts, reads>>
    /\ UNCHANGED <<routeVars, jobVars, extVars>>

ClosePut ==
    /\ close_pc = "put"
    /\ task_queue' = Append(task_queue, <<"THE_END", 0>>)
    /\ the_end_puts' = the_end_puts + 1
    /\ close_pc' = IF the_end_puts + 1 >= TheEndTasks THEN "closed" ELSE "put"
    /\ UNCHANGED <<closing, cache, throw_on_cache_miss, enable_workers,
                   highest_block_requested, highest_block_submitted, current_block,
                   wpc, wtask, ppc, ret, reads>>
    /\ UNCHANGED <<routeVars, jobVars, extVars>>

\* the chain grows by a block
NewBlock ==
    /\ current_block < MaxBlock
    /\ current_block' = current_block + 1
    /\ UNCHANGED <<closing, cache, throw_on_cache_miss, enable_workers, task_queue,
                   highest_block_requested, highest_block_submitted,
                   wpc, wtask, ppc, close_pc, the_end_puts, ret, reads>>
    /\ UNCHANGED <<routeVars, jobVars, extVars>>

\* lines 411-431: PrecachingSuperTensor.__init__
InitCache ==
    /\ RouteInit /\ online_count = [m \in Miners |-> 0]
    /\ JobIdle /\ disable_trusted_events = FALSE
    /\ ExtIdle
    /\ closing = FALSE
    /\ cache = EmptyCache
    /\ throw_on_cache_miss \in BOOLEAN
    /\ enable_workers \in BOOLEAN
    /\ task_queue = <<>>
    /\ highest_block_requested = None
    /\ highest_block_submitted = None
    /\ current_block = 0
    /\ wpc = [w \in Workers |-> IF enable_workers THEN "loop" ELSE "off"]
    /\ wtask = [w \in Workers |-> NoTask]
    /\ ppc = IF enable_workers THEN "loop" ELSE "off"
    /\ close_pc = "open"
    /\ the_end_puts = 0
    /\ ret = NoRet
    /\ reads = 0

WorkerStep(w) ==
    \/ WorkerCheckClosing(w)
    \/ WorkerGet(w)
    \/ \E res \in ChainResults : WorkerTask(w, res)
    \/ WorkerWake(w)

ProducerStep ==
    \/ \E res \in {"ok", "CannotGetCurrentBlock", "Exception"} : produce_thread(res)
    \/ ProducerWake

NextCache ==
    \/ \E b \in Blocks, ok \in BOOLEAN : list_neurons(b, ok)
    \/ \E b \in Blocks, ok \in BOOLEAN : get_block_timestamp(b, ok)
    \/ \E b \in Blocks, ok \in BOOLEAN : get_block_hash(b, ok)
    \/ \E b \in Blocks, ok \in BOOLEAN : get_subnet_state(b, ok)
    \/ \E b \in Blocks, fail_at \in {"none", "neurons", "subnet_state"} :
          list_validators(b, fail_at)
    \/ \E w \in Workers : WorkerStep(w)
    \/ ProducerStep
    \/ Close
    \/ ClosePut
    \/ NewBlock

SpecCache == InitCache /\ [][NextCache]_vars

\* the threads are scheduled, chain calls return or raise within DEFAULT_TIMEOUT,
\* sleeps end, and close() runs to its end
SpecCacheFair ==
    /\ SpecCache
    /\ \A w \in Workers : WF_vars(WorkerStep(w))
    /\ WF_vars(ProducerStep)
    /\ WF_vars(ClosePut)

(***************************************************************************)
(* Properties of the job driver and the router.                            *)
(***************************************************************************)
Statuses(j) == [i \in 1..Len(updates[j]) |-> updates[j][i].status]
LastUpdate(j) == updates[j][Len(updates[j])]
CountStatus(j, st) == Cardinality({i \in 1..Len(updates[j]) : updates[j][i].status = st})

SaveJobStep(j) == pc[j] = "except" /\ pc'[j] = "save_event"
NotifyStep(j) == pc[j] = "notify" /\ pc'[j] = "returned"
AfterJobStep(j) == pc[j] = "returned" /\ pc'[j] = "done"
RouteStep(j) == pc[j] = "routing" /\ pc'[j] # "routing"

StatusRank(st) ==
    CASE st = "received" -> 1
      [] st = "accepted" -> 2
      [] st = "executor_ready" -> 3
      [] st = "volumes_ready" -> 4
      [] st \in {"completed", "failed", "rejected"} -> 5

C2_Pre ==
    /\ \A m \in Miners : online_count[m] = 1
    /\ started_receipts = {} /\ finished_receipts = {} /\ blacklist = {}
    /\ \A r \in reservations : now - r.created_at < T_prelim

C2_NoDoubleSelect ==
    [][\A u \in Uuids :
          (C2_Pre /\ picked[u] = Unset /\ picked'[u] # Unset) =>
              IF \A m \in Miners : \E r \in reservations : r.miner = m
              THEN picked'[u] = "AllMinersBusy"
              ELSE /\ picked'[u] \in Miners
                   /\ \A v \in Uuids \ {u} : picked[v] # picked'[u]]_vars

C2_Witness ==
    /\ C2_Pre
    /\ \E u \in Uuids : picked[u] = "AllMinersBusy"
    /\ \A m \in Miners : \E v \in Uuids : picked[v] = m

\* C3: a timeout in the stage initial response, executor-ready or volumes-ready ends
\* with the updates of the stages passed (received, accepted, executor_ready) and then
\* one `failed` update whose comment names the stage, the job persisted as FAILED.
C3_StageComment(st) ==
    CASE st = "SENT" -> {"timed out waiting for initial response"}
      [] st = "ACCEPTED" -> {"timed out while preparing executor"}
      [] st \in {"READY", "RUNNING"} -> {"timed out: FailureReason.VOLUMES_TIMED_OUT"}

C3_StageStatuses(st) ==
    CASE st = "SENT" -> <<"received", "failed">>
      [] st = "ACCEPTED" -> <<"received", "accepted", "failed">>
      [] st \in {"READY", "RUNNING"} -> <<"received", "accepted", "executor_ready", "failed">>

C3_TimeoutPerStage ==
    \A j \in Jobs :
        (pc[j] \in {"returned", "done"} /\ stage[j] \in {"SENT", "ACCEPTED", "READY", "RUNNING"}) =>
            /\ Statuses(j) = C3_StageStatuses(stage[j])
            /\ LastUpdate(j).comment \in C3_StageComment(stage[j])
            /\ db_job[j] = "FAILED"

\* C4: a BUSY decline is excused (status EXCUSED, one `rejected` update with the
\* comment "Miner properly excused", miner not blacklisted) exactly when the valid
\* excuse receipts (timestamp <= job request time, same executor class, organic, same
\* miner, validator stake >= floor) number at least the miner's online executor
\* count; otherwise the comment is "Miner failed to excuse" and the miner is
\* blacklisted.
C4_RequestTime(j) == (CHOOSE r \in started_receipts : r.job_uuid = j).timestamp

C4_ValidExcuses(j) ==
    {r \in exc[j].received.receipts :
        /\ r.timestamp <= C4_RequestTime(j)
        /\ r.executor_class = DEFAULT_EXECUTOR_CLASS
        /\ r.is_organic
        /\ r.miner_hotkey = job[j].miner
        /\ r.validator_stake >= MINIMUM_VALIDATOR_STAKE_FOR_EXCUSE}

C4_ExcuseComments == {"Miner properly excused job", "Miner failed to excuse job"}

C4_BusyDeclineExcused ==
    [][\A j \in Jobs :
          /\ (SaveJobStep(j) /\ exc[j].reason = "JOB_DECLINED"
                /\ exc[j].received.reason = "BUSY" /\ job[j].miner \in Miners) =>
                IF Cardinality(C4_ValidExcuses(j)) >= online_count[job[j].miner]
                THEN db_job'[j] = "EXCUSED" /\ job'[j].comment = "Miner properly excused job"
                ELSE db_job'[j] # "EXCUSED" /\ job'[j].comment = "Miner failed to excuse job"
          /\ (NotifyStep(j) /\ job[j].comment \in C4_ExcuseComments) =>
                /\ Len(updates'[j]) = Len(updates[j]) + 1
                /\ LastUpdate(j)'.status = "rejected"
                /\ LastUpdate(j)'.comment = job[j].comment
                /\ CountStatus(j, "rejected")' = 1
          /\ (AfterJobStep(j) /\ job[j].miner \in Miners) =>
                /\ job[j].comment = "Miner properly excused job" =>
                      blacklist' = blacklist /\ db_job[j] = "EXCUSED"
                /\ job[j].comment = "Miner failed to excuse job" =>
                      Blacklisted(job[j].miner)']_vars

C4_Witness ==
    \E j \in Jobs : /\ pc[j] = "done" /\ job[j].miner \in Miners
                    /\ job[j].comment = "Miner properly excused job"
                    /\ ~Blacklisted(job[j].miner)

\* C5: a decline with a reason other than BUSY takes the job to the terminal state
\* REJECTED: the persisted status is rejected and exactly one `rejected` update has
\* been emitted, the last one, with the comment "Miner declined job".
C5_DeclinePersistsRejected ==
    \A j \in Jobs :
        (pc[j] \in {"returned", "done"} /\ stage[j] = "DECLINED"
            /\ job[j].comment \notin C4_ExcuseComments) =>
            /\ db_job[j] = "REJECTED"
            /\ CountStatus(j, "rejected") = 1
            /\ LastUpdate(j).status = "rejected"
            /\ LastUpdate(j).comment = "Miner declined job"

\* C6: after a job on miner M ended in a non-excused failure M is blacklisted for the
\* configured duration; a job request whose only candidate M is blacklisted is
\* answered with `received` then `rejected` ("No executor for job request") and M is
\* not contacted for it.
C6_Failures ==
    {"Miner failed to excuse job", "Miner declined job",
     "timed out waiting for initial response", "timed out while preparing executor",
     "Streaming job not ready", "timed out after total_job_timeout seconds",
     "failed to start executor", "Miner failed"}

C6_OnlyCandidate(m) == {x \in Miners : online_count[x] > 0} = {m}

C6_BlacklistedAfterFailure ==
    [][\A j \in Jobs :
          /\ (AfterJobStep(j) /\ job[j].miner \in Miners /\ job[j].comment \in C6_Failures) =>
                [miner |-> job[j].miner, expires_at |-> now + BLACKLIST_TIME] \in blacklist'
          /\ (RouteStep(j) /\ ~trusted[j]
                /\ \E m \in Miners : /\ C6_OnlyCandidate(m)
                                     /\ \E b \in blacklist : b.miner = m /\ now < b.expires_at) =>
                /\ pc'[j] = "done"
                /\ Statuses(j)' = <<"received", "rejected">>
                /\ LastUpdate(j)'.comment = "No executor for job request"
          /\ (pc'[j] = "done" /\ picked'[j] = "NoMinerForExecutorType") =>
                \A m \in Miners : <<j, m>> \notin contacted']_vars

C6_Witness ==
    \E j, k \in Jobs :
        /\ j < k /\ pc[j] = "done" /\ db_job[j] = "FAILED" /\ job[j].miner \in Miners
        /\ pc[k] = "done" /\ picked[k] = "NoMinerForExecutorType"
        /\ Statuses(k) = <<"received", "rejected">>

\* C7: a cancelled driver has emitted a terminal `failed` update for its job and has
\* released the job's preliminary reservation.
C7_CancelUnwinds ==
    \A j \in Jobs :
        pc[j] = "cancelled" =>
            /\ Len(updates[j]) > 0 /\ LastUpdate(j).status = "failed"
            /\ ~\E r \in reservations : r.job_uuid = j

\* C8 (as claimed): every failure outcome, whichever miner the job ran on, has written
\* exactly one SystemEvent with type, subtype per failure reason, long_description
\* and data.
C8_Subtype(jb) ==
    CASE jb.comment = "Miner connection error" -> "MINER_CONNECTION_ERROR"
      [] jb.comment \in {"timed out waiting for initial response",
                         "timed out while preparing executor",
                         "Streaming job not ready"} -> "JOB_NOT_STARTED"
      [] jb.comment = "Miner properly excused job" -> "JOB_EXCUSED"
      [] jb.comment \in {"Miner failed to excuse job", "Miner declined job",
                         "failed to start executor"} -> "JOB_REJECTED"
      [] jb.comment = "timed out after total_job_timeout seconds" -> "JOB_EXECUTION_TIMEOUT"
      [] jb.comment = "Miner failed" ->
            IF jb.error_type = "HUGGINGFACE_DOWNLOAD"
            THEN "ERROR_DOWNLOADING_FROM_HUGGINGFACE" ELSE "FAILURE"

C8_OneEvent(j) ==
    /\ Len(events[j]) = 1
    /\ events[j][1] = [type |-> "MINER_ORGANIC_JOB_FAILURE",
                       subtype |-> C8_Subtype(job[j]),
                       long_description |-> job[j].comment,
                       data |-> [job_uuid |-> j, miner_hotkey |-> MY_HOTKEY]]

C8_FailureOutcome(j) ==
    pc[j] \in {"notify", "returned", "done"} /\ job[j].status \in {"FAILED", "EXCUSED"}

C8_EveryFailureWritesEvent ==
    \A j \in Jobs : C8_FailureOutcome(j) => C8_OneEvent(j)

\* C8 (amended): every failure outcome has written exactly one such SystemEvent,
\* except for a job on the trusted miner while
\* DYNAMIC_DISABLE_TRUSTED_ORGANIC_JOB_EVENTS is set, which has written none.
C8_FailureWritesEventUnlessTrustedDisabled ==
    \A j \in Jobs :
        C8_FailureOutcome(j) =>
            IF job[j].on_trusted_miner /\ disable_trusted_events
            THEN events[j] = <<>>
            ELSE C8_OneEvent(j)

C8_Witness ==
    \E j \in Jobs : /\ pc[j] = "done" /\ job[j].comment = "Miner failed"
                    /\ job[j].error_type = "HUGGINGFACE_DOWNLOAD"
                    /\ Len(events[j]) = 1
                    /\ events[j][1].subtype = "ERROR_DOWNLOADING_FROM_HUGGINGFACE"

(***************************************************************************)
(* Properties of the prefetching chain oracle.                             *)
(***************************************************************************)
C9_ReadStep(k, b) == reads' = reads + 1 /\ ret'.kind = k /\ ret'.block = b

\* C9: for each of the five kinds and every block, a read that misses the cache raises
\* CacheMiss without a chain read and without a change of the cache when
\* throw_on_cache_miss is set; with the flag clear it reads the chain and stores the
\* value it returns, so that the next read of the same (kind, block) is a hit; a hit
\* returns the cached value without a chain read.
C9_MissRaisesOrFills ==
    [][\A k \in Kinds, b \in Blocks :
          C9_ReadStep(k, b) =>
              IF cache[k][b] # NoValue
              THEN ret'.outcome = "hit" /\ ret'.value = cache[k][b] /\ ~ret'.chain_read
              ELSE IF throw_on_cache_miss
              THEN ret'.outcome = "CacheMiss" /\ ~ret'.chain_read /\ cache' = cache
              ELSE /\ ret'.outcome \in {"fetched", "error"}
                   /\ ret'.outcome = "fetched" =>
                         /\ ret'.value = ChainValue(k, b)
                         /\ cache'[k][b] = ret'.value]_vars

AllThreadsDone == ppc = "done" /\ \A w \in Workers : wpc[w] = "done"

\* C10: once close() was called on an oracle that runs workers, the producer thread
\* and every worker thread eventually terminate, whatever is queued and whatever the
\* threads were doing.
C10_CloseTerminatesThreads == (closing /\ enable_workers) ~> AllThreadsDone

C10_Witness ==
    /\ enable_workers /\ close_pc = "closed" /\ AllThreadsDone
    /\ task_queue # <<>> /\ Head(task_queue)[1] # "THE_END"

(***************************************************************************)
(* Chain reads of the oracle (allowance/utils/supertensor.py): make_sync,  *)
(* archive_fallback and RETRY_ON_TIMEOUT around the timed reads.           *)
(***************************************************************************)
\* tenacity.stop_after_attempt(3)
stop_after_attempt == 3

\* what one timed read of a source can end with
ReadOutcomes == {"value", "TimeoutError", "UnknownBlock", "Error"}

make_sync(read_outcome) ==
    IF read_outcome = "TimeoutError" THEN "SuperTensorTimeout" ELSE read_outcome

archive_fallback_any_error(has_archive, lite, arch) ==
    IF make_sync(lite) # "value"
    THEN IF ~has_archive
         THEN [sources |-> <<"lite">>, result |-> "ArchiveSubtensorNotConfigured"]
         ELSE [sources |-> <<"lite", "archive">>, result |-> make_sync(arch)]
    ELSE [sources |-> <<"lite">>, result |-> make_sync(lite)]
\* one call of a function wrapped by archive_fallback over make_sync: lite and arch are
\* what the timed read ends with on the lite and on the archive source
archive_fallback(has_archive, lite, arch) ==
    IF make_sync(lite) = "UnknownBlock"
    THEN IF ~has_archive
         THEN [sources |-> <<"lite">>, result |-> "ArchiveSubtensorNotConfigured"]
         ELSE [sources |-> <<"lite", "archive">>, result |-> make_sync(arch)]
    ELSE [sources |-> <<"lite">>, result |-> make_sync(lite)]

\* an inner read of an operation: the datum read, the number of RETRY_ON_TIMEOUT
\* wrappers between the operation and the timed read, and whether the timed read is
\* wrapped by archive_fallback
InnerRead(kind, retries, fallback) ==
    [kind |-> kind, retries |-> retries, fallback |-> fallback]

\* the operations: whether the operation itself is wrapped by RETRY_ON_TIMEOUT, the
\* inner reads it makes in order, and the kinds it (or what it calls) caches
OracleOps ==
    [list_neurons |->
        [outer |-> TRUE, caches |-> {"neurons"},
         reads |-> <<InnerRead("neurons", 0, TRUE)>>],
     get_block_timestamp |->
        [outer |-> TRUE, caches |-> {},
         reads |-> <<InnerRead("block_timestamp", 0, TRUE)>>],
     get_subnet_state |->
        [outer |-> TRUE, caches |-> {},
         reads |-> <<InnerRead("subnet_state", 0, TRUE)>>],
     get_block_hash |->
        [outer |-> TRUE, caches |-> {},
         reads |-> <<InnerRead("block_hash", 0, TRUE)>>],
     get_shielded_neurons |->
        [outer |-> TRUE, caches |-> {},
         reads |-> <<InnerRead("shielded_neurons", 0, FALSE)>>],
     list_validators |->
        [outer |-> FALSE, caches |-> {"neurons"},
         reads |-> <<InnerRead("neurons", 1, TRUE), InnerRead("subnet_state", 1, TRUE)>>],
     get_metagraph |->
        [outer |-> TRUE, caches |-> {"neurons"},
         reads |-> <<InnerRead("block_hash", 1, TRUE), InnerRead("neurons", 1, TRUE),
                     InnerRead("subnet_state", 1, TRUE)>>],
     Precaching_list_neurons |->
        [outer |-> TRUE, caches |-> {"neurons"},
         reads |-> <<InnerRead("neurons", 0, TRUE)>>],
     Precaching_get_block_timestamp |->
        [outer |-> TRUE, caches |-> {},
         reads |-> <<InnerRead("block_timestamp", 0, TRUE)>>],
     Precaching_get_block_hash |->
        [outer |-> TRUE, caches |-> {"block_hash"},
         reads |-> <<InnerRead("block_hash", 1, TRUE)>>],
     Precaching_get_subnet_state |->
        [outer |-> TRUE, caches |-> {"subnet_state"},
         reads |-> <<InnerRead("subnet_state", 0, TRUE)>>],
     Precaching_list_validators |->
        [outer |-> FALSE, caches |-> {"neurons", "subnet_state"},
         reads |-> <<InnerRead("neurons", 1, TRUE), InnerRead("subnet_state", 1, TRUE)>>],
     Precaching_get_metagraph |->
        [outer |-> TRUE, caches |-> {"block_hash", "neurons", "subnet_state"},
         reads |-> <<InnerRead("block_hash", 2, TRUE), InnerRead("neurons", 1, TRUE),
                     InnerRead("subnet_state", 1, TRUE)>>]]

OpNames == DOMAIN OracleOps

\* the first inner read from i on whose datum is not cached yet
RECURSIVE NextRead(_, _, _)
NextRead(op, i, cached) ==
    IF i > Len(OracleOps[op].reads) THEN i
    ELSE IF OracleOps[op].reads[i].kind \in cached THEN NextRead(op, i + 1, cached)
    ELSE i

FirstAttempts(op, i) ==
    IF i > Len(OracleOps[op].reads) THEN <<>>
    ELSE [n \in 1..OracleOps[op].reads[i].retries |-> 1]

\* the innermost nested retry that has attempts left, 0 if none
RetryLevel(inner) ==
    LET open == {n \in 1..Len(inner) : inner[n] < stop_after_attempt}
    IN  IF open = {} THEN 0 ELSE CHOOSE n \in open : \A k \in open : k <= n

OracleFrame == UNCHANGED <<coreVars, uploadVars, transferVars, taskVars, ledgerVars, reportVars, requestVars, handleVars, moreVars>>

OracleCall(op) ==
    /\ o_pc = "idle"
    /\ o_pc' = "running"
    /\ o_op' = op
    /\ o_step' = 1
    /\ o_outer' = 1
    /\ o_inner' = FirstAttempts(op, 1)
    /\ o_cached' = {}
    /\ o_timeouts' = 0
    /\ o_last' = NoAttempt
    /\ o_result' = "none"
    /\ UNCHANGED archive_configured
    /\ OracleFrame

OracleReturns(result) ==
    /\ o_pc' = "returned"
    /\ o_result' = result
    /\ UNCHANGED <<o_step, o_outer, o_inner>>

\* RETRY_ON_TIMEOUT around an attempt that raised SuperTensorTimeout: the innermost
\* wrapper with attempts left calls again; a wrapper that made its last attempt
\* re-raises to the wrapper around it
RETRY_ON_TIMEOUT(op) ==
    LET n == RetryLevel(o_inner)
    IN  IF n > 0
        THEN /\ o_inner' = [k \in 1..Len(o_inner) |->
                               IF k < n THEN o_inner[k]
                               ELSE IF k = n THEN o_inner[k] + 1 ELSE 1]
             /\ UNCHANGED <<o_pc, o_result, o_step, o_outer>>
        ELSE IF OracleOps[op].outer /\ o_outer < stop_after_attempt
        THEN /\ o_outer' = o_outer + 1
             /\ o_step' = NextRead(op, 1, o_cached)
             /\ o_inner' = FirstAttempts(op, NextRead(op, 1, o_cached))
             /\ UNCHANGED <<o_pc, o_result>>
        ELSE OracleReturns("SuperTensorTimeout")

\* one attempt of the running inner read: a call of the timed read, through
\* archive_fallback where the read has it
OracleAttempt(lite, arch) ==
    /\ o_pc = "running"
    /\ LET op == o_op
           rd == OracleOps[op].reads[o_step]
           res == IF rd.fallback THEN archive_fallback(archive_configured, lite, arch)
                  ELSE [sources |-> <<"lite">>, result |-> make_sync(lite)]
           cached == IF rd.kind \in OracleOps[op].caches
                     THEN o_cached \cup {rd.kind} ELSE o_cached
           next == NextRead(op, o_step + 1, cached)
       IN  /\ Len(res.sources) = 1 => arch = "value"
           /\ o_last' = [fallback |-> rd.fallback, lite |-> lite, arch |-> arch,
                         sources |-> res.sources, result |-> res.result]
           /\ IF res.result = "value"
              THEN /\ o_cached' = cached
                   /\ o_timeouts' = 0
                   /\ IF next > Len(OracleOps[op].reads)
                      THEN OracleReturns("value")
                      ELSE /\ o_step' = next
                           /\ o_inner' = FirstAttempts(op, next)
                           /\ UNCHANGED <<o_pc, o_result, o_outer>>
              ELSE IF res.result = "SuperTensorTimeout"
              THEN /\ o_timeouts' = o_timeouts + 1
                   /\ RETRY_ON_TIMEOUT(op)
                   /\ UNCHANGED o_cached
              ELSE /\ OracleReturns(res.result)
                   /\ UNCHANGED <<o_cached, o_timeouts>>
    /\ UNCHANGED <<archive_configured, o_op>>
    /\ OracleFrame

\* the caller takes the result; the oracle is ready for the next call
OracleDone ==
    /\ o_pc = "returned"
    /\ o_pc' = "idle"
    /\ o_op' = "none"
    /\ o_step' = 0
    /\ o_outer' = 0
    /\ o_inner' = <<>>
    /\ o_cached' = {}
    /\ o_timeouts' = 0
    /\ o_last' = NoAttempt
    /\ o_result' = "none"
    /\ UNCHANGED archive_configured
    /\ OracleFrame

InitOracle ==
    /\ RouteInit /\ online_count = [m \in Miners |-> 0]
    /\ RequestIdle
    /\ HandleIdle
    /\ MoreIdle
    /\ ReportIdle
    /\ JobIdle /\ disable_trusted_events = FALSE
    /\ CacheIdle
    /\ UploadIdle
    /\ TransferIdle
    /\ TaskIdle
    /\ LedgerIdle
    /\ archive_configured \in BOOLEAN
    /\ o_pc = "idle"
    /\ o_op = "none"
    /\ o_step = 0
    /\ o_outer = 0
    /\ o_inner = <<>>
    /\ o_cached = {}
    /\ o_timeouts = 0
    /\ o_last = NoAttempt
    /\ o_result = "none"

NextOracle ==
    \/ \E op \in OpNames : OracleCall(op)
    \/ \E lite \in ReadOutcomes, arch \in ReadOutcomes : OracleAttempt(lite, arch)
    \/ OracleDone

SpecOracle == InitOracle /\ [][NextOracle]_vars

\* C11: a block-addressed chain read that fails with UnknownBlock on the lite source is
\* read exactly once more, through the archive source, when one is configured, and what
\* that read gives (value or error) is the result; without an archive source the read
\* fails with ArchiveSubtensorNotConfigured; a lite read that ends in anything other
\* than UnknownBlock never reads the archive source.
C11_ArchiveFallback ==
    (o_last # NoAttempt /\ o_last.fallback) =>
        IF o_last.lite = "UnknownBlock"
        THEN IF archive_configured
             THEN /\ o_last.sources = <<"lite", "archive">>
                  /\ o_last.result =
                        (IF o_last.arch = "TimeoutError" THEN "SuperTensorTimeout"
                         ELSE o_last.arch)
             ELSE /\ o_last.sources = <<"lite">>
                  /\ o_last.result = "ArchiveSubtensorNotConfigured"
        ELSE /\ o_last.sources = <<"lite">>
             /\ o_last.result =
                   (IF o_last.lite = "TimeoutError" THEN "SuperTensorTimeout"
                    ELSE o_last.lite)

C11_Witness ==
    /\ archive_configured
    /\ o_last.fallback /\ o_last.lite = "UnknownBlock"
    /\ o_last.sources = <<"lite", "archive">>
    /\ o_last.result = "UnknownBlock"

\* C12: every chain read operation of the oracle, plain or prefetching, makes at most
\* 3 attempts of the underlying timed read while the attempts keep timing out, and
\* then fails with SuperTensorTimeout; an attempt that fails with any error other
\* than a timeout ends the operation with that error.
C12_AtMostThreeAttempts ==
    /\ o_timeouts <= stop_after_attempt
    /\ o_timeouts = stop_after_attempt =>
          (o_pc = "returned" /\ o_result = "SuperTensorTimeout")
    /\ o_last.result \notin {"none", "value", "SuperTensorTimeout"} =>
          (o_pc = "returned" /\ o_result = o_last.result)

AllKindsCached(b) == \A k \in Kinds : cache[k][b] # NoValue

\* block b was requested or lies ahead of the requests, within what the producer
\* prefetches, and exists on the chain
InPrefetchWindow(b) ==
    /\ enable_workers /\ ~closing
    /\ highest_block_requested # None
    /\ highest_block_requested <= b
    /\ b <= highest_block_requested + CACHE_AHEAD
    /\ b <= current_block

\* SpecCacheFair with a chain that answers: a call that is made again and again
\* eventually succeeds (get_current_block of the producer, the chain read of a worker)
SpecCacheFairChain ==
    /\ SpecCacheFair
    /\ SF_vars(produce_thread("ok"))
    /\ \A w \in Workers : SF_vars(WorkerTask(w, "ok"))

\* C13: with the producer and the workers running under fair scheduling, every block
\* between the requested block and min(current_block, highest requested + CACHE_AHEAD)
\* eventually has all five kinds in the cache (unless the oracle is closed first); a
\* task whose chain read failed once is not lost for good.
C13_WindowEventuallyCached ==
    \A b \in Blocks : InPrefetchWindow(b) ~> (closing \/ AllKindsCached(b))

(***************************************************************************)
(* Output upload (compute_horde_core/output_upload/_uploader.py).          *)
(***************************************************************************)
Uploaders == 1..NumUploaders

\* the zipped_directory context manager up to its yield: entries is the number of
\* directory entries left after the exclusions, size the size of the zip written
zipped_directory_strict(entries, size) ==
    IF entries >= MAX_NUMBER_OF_FILES THEN "OutputUploadFailed"
    ELSE IF size >= max_size_bytes THEN "OutputUploadFailed"
    ELSE "yield"
zipped_directory(entries, size) ==
    IF entries > MAX_NUMBER_OF_FILES THEN "OutputUploadFailed"
    ELSE IF size > max_size_bytes THEN "OutputUploadFailed"
    ELSE "yield"

\* no zip is written when there are too many entries
ZipInputs ==
    {<<entries, size>> \in (0..MAX_NUMBER_OF_FILES + 1) \X (0..max_size_bytes + 1) :
        entries > MAX_NUMBER_OF_FILES => size = 0}

UploadFrame == UNCHANGED <<coreVars, oracleVars, transferVars, taskVars, ledgerVars, reportVars, requestVars, handleVars, moreVars>>

\* OutputUploader.for_upload_output(...).upload(directory) is called
upload(u, kind, n, system_output) ==
    /\ up_pc[u] = "idle"
    /\ up_kind' = [up_kind EXCEPT ![u] = kind]
    /\ up_pc' = [up_pc EXCEPT ![u] = IF kind = "zip" THEN "zip" ELSE "loop"]
    /\ up_left' = [up_left EXCEPT ![u] = IF kind = "zip" THEN 0 ELSE n]
    /\ up_sys' = [up_sys EXCEPT ![u] = kind = "multi" /\ system_output]
    /\ kind = "zip" => (n = 0 /\ ~system_output)
    /\ UNCHANGED <<up_tasks, up_running, up_zip_running, up_temp, up_zip, semaphore>>
    /\ UploadFrame

\* ZipAndHTTPPost/PutOutputUploader.upload, lines 98 and 122: the with statement
\* enters zipped_directory
ZipEnter(u, entries, size) ==
    /\ up_pc[u] = "zip"
    /\ LET res == zipped_directory(entries, size)
       IN  /\ up_zip' = [up_zip EXCEPT ![u] =
                            [entries |-> entries, size |-> size, result |-> res]]
           /\ up_temp' = [up_temp EXCEPT ![u] = res = "yield"]
           /\ up_pc' = [up_pc EXCEPT ![u] = IF res = "yield" THEN "acquire" ELSE "failed"]
    /\ UNCHANGED <<up_kind, up_left, up_sys, up_tasks, up_running, up_zip_running,
                   semaphore>>
    /\ UploadFrame

\* lines 99 and 123: async with self._semaphore, then the upload starts
ZipAcquire(u) ==
    /\ up_pc[u] = "acquire"
    /\ semaphore > 0
    /\ semaphore' = semaphore - 1
    /\ up_pc' = [up_pc EXCEPT ![u] = "upload"]
    /\ up_zip_running' = [up_zip_running EXCEPT ![u] = TRUE]
    /\ UNCHANGED <<up_kind, up_left, up_sys, up_tasks, up_running, up_temp, up_zip>>
    /\ UploadFrame

\* upload_post / upload_put of the zip returns, or raises after its retries; the
\* semaphore and the temporary file are released on the way out
ZipUploadEnds(u, ok) ==
    /\ up_zip_running[u]
    /\ up_zip_running' = [up_zip_running EXCEPT ![u] = FALSE]
    /\ up_temp' = [up_temp EXCEPT ![u] = FALSE]
    /\ IF up_kind[u] = "zip"
       THEN /\ semaphore' = semaphore + 1
            /\ up_pc' = [up_pc EXCEPT ![u] = IF ok THEN "done" ELSE "failed"]
       ELSE /\ UNCHANGED semaphore
            /\ up_pc' = [up_pc EXCEPT ![u] =
                            IF ~ok THEN "failed"
                            ELSE IF up_pc[u] = "gathered" /\ up_running[u] = 0
                            THEN "done" ELSE up_pc[u]]
    /\ UNCHANGED <<up_kind, up_left, up_sys, up_tasks, up_running, up_zip>>
    /\ UploadFrame

\* MultiUploadOutputUploader.upload, lines 141-172: one iteration of the loop. The
\* semaphore is taken and released around tasks.append: nothing is awaited inside.
\* tasks.append stores a coroutine object, which does not run before asyncio.gather.
MultiAppend_eager(u, exists, supported) ==
    /\ up_pc[u] = "loop"
    /\ up_left[u] > 0
    /\ IF ~exists \/ ~supported
       THEN /\ up_pc' = [up_pc EXCEPT ![u] = "failed"]
            /\ UNCHANGED <<up_left, up_tasks, up_running>>
       ELSE /\ semaphore > 0
            /\ up_left' = [up_left EXCEPT ![u] = up_left[u] - 1]
            /\ up_tasks' = [up_tasks EXCEPT ![u] = up_tasks[u] + 1]
            /\ up_running' = [up_running EXCEPT ![u] = up_running[u] + 1]
            /\ UNCHANGED up_pc
    /\ UNCHANGED <<up_kind, up_sys, up_zip_running, up_temp, up_zip, semaphore>>
    /\ UploadFrame

MultiAppend(u, exists, supported) ==
    /\ up_pc[u] = "loop"
    /\ up_left[u] > 0
    /\ IF ~exists \/ ~supported
       THEN /\ up_pc' = [up_pc EXCEPT ![u] = "failed"]
            /\ UNCHANGED <<up_left, up_tasks>>
       ELSE /\ semaphore > 0
            /\ up_left' = [up_left EXCEPT ![u] = up_left[u] - 1]
            /\ up_tasks' = [up_tasks EXCEPT ![u] = up_tasks[u] + 1]
            /\ UNCHANGED up_pc
    /\ UNCHANGED <<up_kind, up_sys, up_running, up_zip_running, up_temp, up_zip,
                   semaphore>>
    /\ UploadFrame

\* lines 174-217: the system output task is appended the same way, then
\* asyncio.gather starts every task: each single file upload begins, and the
\* system output task enters zipped_directory and begins its upload
\* supported: the system output is a ZipAndHttpPostUpload or a ZipAndHttpPutUpload;
\* otherwise line 214 raises before asyncio.gather is reached
Gather(u, entries, size, supported) ==
    /\ up_pc[u] = "loop"
    /\ up_left[u] = 0
    /\ ~up_sys[u] => (entries = 0 /\ size = 0 /\ supported)
    /\ ~supported => (entries = 0 /\ size = 0)
    /\ IF ~supported
       THEN /\ up_pc' = [up_pc EXCEPT ![u] = "failed"]
            /\ UNCHANGED <<up_zip, up_temp, up_zip_running, up_running>>
       ELSE /\ up_sys[u] => semaphore > 0
            /\ LET res == IF up_sys[u] THEN zipped_directory(entries, size) ELSE "none"
               IN  /\ up_zip' = [up_zip EXCEPT ![u] =
                                    IF up_sys[u]
                                    THEN [entries |-> entries, size |-> size,
                                          result |-> res]
                                    ELSE up_zip[u]]
                   /\ up_temp' = [up_temp EXCEPT ![u] = res = "yield"]
                   /\ up_zip_running' = [up_zip_running EXCEPT ![u] = res = "yield"]
                   /\ up_running' = [up_running EXCEPT ![u] = up_tasks[u]]
                   /\ up_pc' = [up_pc EXCEPT ![u] =
                                   IF res = "OutputUploadFailed" THEN "failed"
                                   ELSE IF up_tasks[u] = 0 /\ res = "none" THEN "done"
                                   ELSE "gathered"]
    /\ UNCHANGED <<up_kind, up_left, up_sys, up_tasks, semaphore>>
    /\ UploadFrame

\* the upload_post / upload_put of a single file returns, or raises after its retries
SingleUploadEnds(u, ok) ==
    /\ up_running[u] > 0
    /\ up_running' = [up_running EXCEPT ![u] = up_running[u] - 1]
    /\ up_pc' = [up_pc EXCEPT ![u] =
                    IF ~ok THEN "failed"
                    ELSE IF up_pc[u] = "gathered" /\ up_running[u] = 1
                            /\ ~up_zip_running[u]
                    THEN "done" ELSE up_pc[u]]
    /\ UNCHANGED <<up_kind, up_left, up_sys, up_tasks, up_zip_running, up_temp, up_zip,
                   semaphore>>
    /\ UploadFrame

InitUpload ==
    /\ RouteInit /\ online_count = [m \in Miners |-> 0]
    /\ RequestIdle
    /\ HandleIdle
    /\ MoreIdle
    /\ ReportIdle
    /\ JobIdle /\ disable_trusted_events = FALSE
    /\ CacheIdle
    /\ OracleIdle
    /\ UploadIdle
    /\ TransferIdle
    /\ TaskIdle
    /\ LedgerIdle

NextUpload ==
    \/ \E u \in Uploaders, kind \in {"zip", "multi"}, n \in 0..MaxUploads,
          system_output \in BOOLEAN : upload(u, kind, n, system_output)
    \/ \E u \in Uploaders, z \in ZipInputs : ZipEnter(u, z[1], z[2])
    \/ \E u \in Uploaders : ZipAcquire(u)
    \/ \E u \in Uploaders, ok \in BOOLEAN : ZipUploadEnds(u, ok)
    \/ \E u \in Uploaders, exists \in BOOLEAN, supported \in BOOLEAN :
          MultiAppend(u, exists, supported)
    \/ \E u \in Uploaders, z \in ZipInputs, supported \in BOOLEAN :
          Gather(u, z[1], z[2], supported)
    \/ \E u \in Uploaders, ok \in BOOLEAN : SingleUploadEnds(u, ok)

SpecUpload == InitUpload /\ [][NextUpload]_vars

RECURSIVE UploadsInFlight(_)
UploadsInFlight(n) ==
    IF n = 0 THEN 0
    ELSE up_running[n] + (IF up_zip_running[n] THEN 1 ELSE 0) + UploadsInFlight(n - 1)

\* C14: at any time at most MAX_CONCURRENT_UPLOADS network uploads are in flight in
\* the process, counted over all uploaders, each single file upload and the system
\* zip upload of a MultiUpload included, however many files a MultiUpload lists.
C14_BoundedUploads == UploadsInFlight(NumUploaders) <= MAX_CONCURRENT_UPLOADS

\* C15: zipped_directory raises OutputUploadFailed and yields nothing exactly when the
\* directory has, after the exclusions, more than MAX_NUMBER_OF_FILES entries or the
\* zip written is larger than max_size_bytes (a directory of exactly
\* MAX_NUMBER_OF_FILES entries and a zip of exactly max_size_bytes are accepted), and
\* the temporary file is open only while the zip is waiting for or in its upload.
C15_ZipLimits ==
    \A u \in Uploaders :
        /\ up_zip[u] # NoZip =>
              /\ up_zip[u].result = "OutputUploadFailed" <=>
                    (up_zip[u].entries > MAX_NUMBER_OF_FILES
                        \/ up_zip[u].size > max_size_bytes)
              /\ up_zip[u].result = "OutputUploadFailed" =>
                    (~up_temp[u] /\ ~up_zip_running[u] /\ up_pc[u] = "failed")
              /\ up_zip[u].result # "OutputUploadFailed" => up_zip[u].result = "yield"
        /\ up_temp[u] => (up_pc[u] = "acquire" \/ up_zip_running[u])

C15_Witness ==
    \E u \in Uploaders :
        /\ up_zip[u] # NoZip
        /\ up_zip[u].entries = MAX_NUMBER_OF_FILES /\ up_zip[u].size = max_size_bytes
        /\ up_zip[u].result = "yield"
        /\ up_pc[u] = "done" /\ ~up_temp[u]

(***************************************************************************)
(* Receipt transfer command (management/commands/transfer_receipts.py).    *)
(* The page store is read at cutoff_page and current_page; the coroutine   *)
(* left over in asyncio.gather when its sibling raises TransferIsDisabled  *)
(* keeps running on the closed session of the ended run (orphans).         *)
(***************************************************************************)
\* reversed(range(lo, hi + 1))
PagesDown(lo, hi) ==
    IF hi < lo THEN <<>> ELSE [i \in 1..(hi - lo + 1) |-> hi - i + 1]

HotPages == PagesDown(current_page - N_ACTIVE_PAGES + 1, current_page)
ColdPages_overlapping == PagesDown(cutoff_page, current_page - N_ACTIVE_PAGES + 1)
ColdPages == PagesDown(cutoff_page, current_page - N_ACTIVE_PAGES)

TransferFrame == UNCHANGED <<coreVars, oracleVars, uploadVars, taskVars, ledgerVars, reportVars, requestVars, handleVars, moreVars>>

\* _throw_if_disabled: KeyError (option not set up) counts as disabled
throw_if_disabled(value) == value # "true"

\* line 286: time.sleep (not asyncio.sleep) holds the thread of the event loop, so
\* no coroutine of the loop is resumed until it returns
Blocked == ku_pc = "sleep" \/ \E o \in orphans : o.pc = "sleep"

\* Command.handle, lines 143-152
handle(daemon) ==
    /\ tr_pc = "idle"
    /\ tr_mode' = IF daemon THEN "daemon" ELSE "once"
    /\ tr_pc' = "run"
    /\ tr_run' = 1
    /\ tr_phase' = IF daemon THEN "hot" ELSE "once"
    /\ cu_pages' = IF daemon THEN HotPages ELSE PagesDown(cutoff_page, current_page)
    /\ cu_pc' = "check"
    /\ UNCHANGED <<ku_pc, cu_miners, ku_miners, cu_switch, ku_switch, enabled,
                   miners_now, tr_log, orphans>>
    /\ TransferFrame

\* the coroutine asyncio.gather (line 186) leaves running when the other one raises:
\* gather hands the exception to run_in_loop and does not cancel the sibling
Sibling(by) ==
    IF by = "catch_up"
    THEN [run |-> tr_run, by |-> "keep_up", pc |-> ku_pc, pages |-> <<>>,
          miners |-> ku_miners, switch |-> ku_switch, passed |-> FALSE]
    ELSE [run |-> tr_run, by |-> "catch_up", pc |-> cu_pc, pages |-> cu_pages,
          miners |-> cu_miners, switch |-> cu_switch, passed |-> FALSE]

gather(by) ==
    IF tr_phase = "gather" /\ Sibling(by).pc # "off" THEN {Sibling(by)} ELSE {}

\* TransferIsDisabled leaves the coroutine `by`: handle catches it in daemon mode only
TransferIsDisabled(by) ==
    /\ tr_pc' = IF tr_mode = "daemon" THEN "sleep" ELSE "failed"
    /\ cu_pc' = "off"
    /\ ku_pc' = "off"
    /\ orphans' = orphans \cup gather(by)
    /\ UNCHANGED <<tr_phase, cu_pages>>

\* catch_up, lines 215-216 and 242: the head of the for loop
CatchUpCheck ==
    /\ tr_pc = "run" /\ cu_pc = "check"
    /\ ~Blocked
    /\ cu_switch' = enabled
    /\ IF cu_pages = <<>>
       THEN /\ IF tr_phase = "once"
               THEN /\ tr_pc' = "done" /\ cu_pc' = "off"
                    /\ UNCHANGED <<tr_phase, cu_pages, ku_pc>>
               ELSE IF tr_phase = "hot"
               THEN /\ tr_phase' = "gather" /\ cu_pages' = ColdPages
                    /\ ku_pc' = "check"
                    /\ UNCHANGED <<tr_pc, cu_pc>>
               ELSE /\ cu_pc' = "off"
                    /\ UNCHANGED <<tr_pc, tr_phase, cu_pages, ku_pc>>
            /\ UNCHANGED orphans
       ELSE IF throw_if_disabled(enabled)
       THEN TransferIsDisabled("catch_up")
       ELSE /\ cu_pc' = "miners"
            /\ UNCHANGED <<tr_pc, tr_phase, cu_pages, ku_pc, orphans>>
    /\ UNCHANGED <<tr_mode, tr_run, cu_miners, ku_miners, ku_switch, enabled, miners_now,
                   tr_log>>
    /\ TransferFrame

\* line 220: current_loop_miners = await miners()
CatchUpMiners ==
    /\ tr_pc = "run" /\ cu_pc = "miners"
    /\ ~Blocked
    /\ cu_miners' = miners_now
    /\ cu_pc' = "transfer"
    /\ UNCHANGED <<tr_mode, tr_pc, tr_run, tr_phase, cu_pages, ku_pc, ku_miners, cu_switch,
                   ku_switch, enabled, miners_now, tr_log, orphans>>
    /\ TransferFrame

\* lines 221-241: ReceiptsTransfer.transfer of the page
CatchUpTransfer ==
    /\ tr_pc = "run" /\ cu_pc = "transfer"
    /\ ~Blocked
    /\ Len(tr_log) < MaxTransfers
    /\ tr_log' = Append(tr_log, [by |-> "catch_up", pages |-> <<Head(cu_pages)>>,
                                 miners |-> cu_miners, switch |-> cu_switch,
                                 run |-> tr_run, phase |-> tr_phase, orphan |-> FALSE])
    /\ cu_pages' = Tail(cu_pages)
    /\ cu_pc' = "check"
    /\ UNCHANGED <<tr_mode, tr_pc, tr_run, tr_phase, ku_pc, cu_miners, ku_miners, cu_switch,
                   ku_switch, enabled, miners_now, orphans>>
    /\ TransferFrame

\* keep_up, lines 253-254
KeepUpCheck ==
    /\ tr_pc = "run" /\ ku_pc = "check"
    /\ ~Blocked
    /\ ku_switch' = enabled
    /\ IF throw_if_disabled(enabled)
       THEN TransferIsDisabled("keep_up")
       ELSE /\ ku_pc' = "miners"
            /\ UNCHANGED <<tr_pc, tr_phase, cu_pages, cu_pc, orphans>>
    /\ UNCHANGED <<tr_mode, tr_run, cu_miners, ku_miners, cu_switch, enabled, miners_now,
                   tr_log>>
    /\ TransferFrame

\* lines 255-260
KeepUpMiners ==
    /\ tr_pc = "run" /\ ku_pc = "miners"
    /\ ~Blocked
    /\ ku_miners' = miners_now
    /\ ku_pc' = "transfer"
    /\ UNCHANGED <<tr_mode, tr_pc, tr_run, tr_phase, cu_pages, cu_pc, cu_miners, cu_switch,
                   ku_switch, enabled, miners_now, tr_log, orphans>>
    /\ TransferFrame

\* lines 261-286: the transfer of the active pages; a pass that took less than the
\* interval (early) goes on to time.sleep
KeepUpTransfer(early) ==
    /\ tr_pc = "run" /\ ku_pc = "transfer"
    /\ ~Blocked
    /\ Len(tr_log) < MaxTransfers
    /\ tr_log' = Append(tr_log, [by |-> "keep_up", pages |-> HotPages,
                                 miners |-> ku_miners, switch |-> ku_switch,
                                 run |-> tr_run, phase |-> tr_phase, orphan |-> FALSE])
    /\ ku_pc' = IF early THEN "sleep" ELSE "check"
    /\ UNCHANGED <<tr_mode, tr_pc, tr_run, tr_phase, cu_pages, cu_pc, cu_miners, ku_miners,
                   cu_switch, ku_switch, enabled, miners_now, orphans>>
    /\ TransferFrame

\* line 286: time.sleep(interval - elapsed) returns
KeepUpWake ==
    /\ tr_pc = "run" /\ ku_pc = "sleep"
    /\ ku_pc' = "check"
    /\ UNCHANGED <<tr_mode, tr_pc, tr_run, tr_phase, cu_pages, cu_pc, cu_miners, ku_miners,
                   cu_switch, ku_switch, enabled, miners_now, tr_log, orphans>>
    /\ TransferFrame

\* lines 147-150: asyncio.sleep(60) is over, run_in_loop is called again
SleepOver ==
    /\ tr_pc = "sleep"
    /\ ~Blocked
    /\ tr_run < MaxRuns
    /\ tr_pc' = "run"
    /\ tr_run' = tr_run + 1
    /\ tr_phase' = "hot"
    /\ cu_pages' = HotPages
    /\ cu_pc' = "check"
    /\ UNCHANGED <<tr_mode, ku_pc, cu_miners, ku_miners, cu_switch, ku_switch, enabled,
                   miners_now, tr_log, orphans>>
    /\ TransferFrame

OrphanFrame ==
    /\ UNCHANGED <<tr_mode, tr_pc, tr_run, tr_phase, cu_pages, cu_pc, ku_pc, cu_miners,
                   ku_miners, cu_switch, ku_switch, enabled, miners_now>>
    /\ TransferFrame

\* a coroutine gather left running reaches its next _throw_if_disabled (216, 254), or
\* the end of its pages (242)
OrphanCheck(o) ==
    /\ o \in orphans /\ o.pc = "check"
    /\ ~Blocked
    /\ orphans' = IF (o.by = "catch_up" /\ o.pages = <<>>) \/ throw_if_disabled(enabled)
                  THEN orphans \ {o}
                  ELSE (orphans \ {o}) \cup
                       {[o EXCEPT !.pc = "miners", !.switch = enabled, !.passed = TRUE]}
    /\ UNCHANGED tr_log
    /\ OrphanFrame

\* lines 220, 260
OrphanMiners(o) ==
    /\ o \in orphans /\ o.pc = "miners"
    /\ ~Blocked
    /\ orphans' = (orphans \ {o}) \cup {[o EXCEPT !.pc = "transfer", !.miners = miners_now]}
    /\ UNCHANGED tr_log
    /\ OrphanFrame

\* lines 221-228, 261-267 with the session run_in_loop has closed on its way out
\* (line 178): ReceiptsTransfer.transfer hands the failure back in its result, or raises
OrphanTransfer(o, raised, early) ==
    /\ o \in orphans /\ o.pc = "transfer"
    /\ ~Blocked
    /\ Len(tr_log) < MaxTransfers
    /\ tr_log' = Append(tr_log, [by |-> o.by,
                                 pages |-> IF o.by = "catch_up" THEN <<Head(o.pages)>>
                                           ELSE HotPages,
                                 miners |-> o.miners, switch |-> o.switch,
                                 run |-> o.run, phase |-> "gather", orphan |-> o.passed])
    /\ orphans' = IF raised THEN orphans \ {o}
                  ELSE IF o.by = "catch_up"
                  THEN (orphans \ {o}) \cup
                       {[o EXCEPT !.pc = "check", !.pages = Tail(o.pages)]}
                  ELSE (orphans \ {o}) \cup
                       {[o EXCEPT !.pc = IF early THEN "sleep" ELSE "check"]}
    /\ OrphanFrame

\* line 286 in a keep_up gather left running
OrphanWake(o) ==
    /\ o \in orphans /\ o.pc = "sleep"
    /\ orphans' = (orphans \ {o}) \cup {[o EXCEPT !.pc = "check"]}
    /\ UNCHANGED tr_log
    /\ OrphanFrame

\* an operator changes DYNAMIC_RECEIPT_TRANSFER_ENABLED, or removes the option
SetSwitch(value) ==
    /\ value # enabled
    /\ enabled' = value
    /\ UNCHANGED <<tr_mode, tr_pc, tr_run, tr_phase, cu_pages, cu_pc, ku_pc, cu_miners,
                   ku_miners, cu_switch, ku_switch, miners_now, tr_log, orphans>>
    /\ TransferFrame

\* the metagraph snapshot's serving miners change
MinersChange(set) ==
    /\ set # miners_now
    /\ miners_now' = set
    /\ UNCHANGED <<tr_mode, tr_pc, tr_run, tr_phase, cu_pages, cu_pc, ku_pc, cu_miners,
                   ku_miners, cu_switch, ku_switch, enabled, tr_log, orphans>>
    /\ TransferFrame

InitTransfer ==
    /\ RouteInit /\ online_count = [m \in Miners |-> 0]
    /\ RequestIdle
    /\ HandleIdle
    /\ MoreIdle
    /\ ReportIdle
    /\ JobIdle /\ disable_trusted_events = FALSE
    /\ CacheIdle
    /\ OracleIdle
    /\ UploadIdle
    /\ TaskIdle
    /\ LedgerIdle
    /\ tr_mode = "none" /\ tr_pc = "idle" /\ tr_phase = "none"
    /\ tr_run = 0 /\ orphans = {}
    /\ cu_pages = <<>> /\ cu_pc = "off" /\ ku_pc = "off"
    /\ cu_miners = "none" /\ ku_miners = "none"
    /\ cu_switch = "none" /\ ku_switch = "none"
    /\ enabled \in SwitchValues
    /\ miners_now \in MinerSets
    /\ tr_log = <<>>

NextTransfer ==
    \/ \E daemon \in BOOLEAN : handle(daemon)
    \/ CatchUpCheck
    \/ CatchUpMiners
    \/ CatchUpTransfer
    \/ KeepUpCheck
    \/ KeepUpMiners
    \/ \E early \in BOOLEAN : KeepUpTransfer(early)
    \/ KeepUpWake
    \/ SleepOver
    \/ \E o \in orphans : OrphanCheck(o)
    \/ \E o \in orphans : OrphanMiners(o)
    \/ \E o \in orphans, raised, early \in BOOLEAN : OrphanTransfer(o, raised, early)
    \/ \E o \in orphans : OrphanWake(o)
    \/ \E value \in SwitchValues : SetSwitch(value)
    \/ \E set \in MinerSets : MinersChange(set)

SpecTransfer == InitTransfer /\ [][NextTransfer]_vars

LogPages == [i \in 1..Len(tr_log) |-> tr_log[i].pages]
OncePages == [i \in 1..Len(PagesDown(cutoff_page, current_page)) |->
                 <<PagesDown(cutoff_page, current_page)[i]>>]

\* C16: in once mode the command transfers the pages of [cutoff_page, current_page]
\* one at a time in strictly decreasing page number, each exactly once and each
\* against the miner set read for that page, and when it has ended it has
\* transferred every one of them.
C16_OnceTransfersEveryPage ==
    tr_mode = "once" =>
        /\ Len(tr_log) <= Len(OncePages)
        /\ LogPages = SubSeq(OncePages, 1, Len(tr_log))
        /\ tr_pc \in {"done", "failed"} => LogPages = OncePages

\* C17: in either mode the switch is consulted before every catch-up page and every
\* keep-up pass, a transfer starts only in an iteration whose consultation read true,
\* and a consultation that reads false (or finds the option not set up) never ends the
\* command: it sleeps and consults again.
C17_SwitchNeverEndsCommand ==
    /\ \A i \in 1..Len(tr_log) : tr_log[i].switch = "true"
    /\ tr_pc # "failed"

(***************************************************************************)
(* The block scan task (allowance/tasks.py). Lock is the advisory lock of  *)
(* validator/locks.py: taken if free, Locked after the timeout if another  *)
(* transaction holds it, released when the transaction ends.               *)
(***************************************************************************)
Procs == 1..NumProcs

TaskFrame == UNCHANGED <<coreVars, oracleVars, uploadVars, transferVars, ledgerVars, reportVars, requestVars, handleVars, moreVars>>

ScanOutcomes == {"ok", "TimesUpError", "Exception"}

\* celery starts a run of scan_blocks_and_calculate_allowance; line 21 opens the
\* transaction. A run that comes to the lock while its holder has only the end of its
\* transaction left ("wait") gets the lock or sees a later holder scan: the 5 s of the
\* timeout are taken to be longer than the end of a transaction, and shorter than a
\* scan may be.
TaskStart(p) ==
    /\ task_pc[p] = "idle"
    /\ task_pc' = [task_pc EXCEPT ![p] =
                       IF lock_holder # 0 /\ task_pc[lock_holder] = "commit"
                       THEN "wait" ELSE "lock"]
    /\ task_result' = [task_result EXCEPT ![p] = "none"]
    /\ task_writes' = [task_writes EXCEPT ![p] = 0]
    /\ queued' = IF queued > 0 THEN queued - 1 ELSE 0
    /\ UNCHANGED <<lock_holder, allowance_state>>
    /\ TaskFrame

\* line 23: Lock(LockType.ALLOWANCE_FETCHING, 5.0) is entered, the lock is free
LockAcquired(p) ==
    /\ task_pc[p] \in {"lock", "wait"}
    /\ lock_holder = 0
    /\ lock_holder' = p
    /\ task_pc' = [q \in Procs |-> IF q = p THEN "scan"
                                   ELSE IF task_pc[q] = "wait" THEN "lock"
                                   ELSE task_pc[q]]
    /\ UNCHANGED <<task_result, task_writes, allowance_state, queued>>
    /\ TaskFrame

\* lines 25-26: what the task does when Lock raised Locked
except_Locked_scans == "scan"
except_Locked == "done"

\* line 23: another transaction held the lock for the whole timeout
Locked(p) ==
    /\ task_pc[p] = "lock"
    /\ lock_holder # 0
    /\ task_pc' = [task_pc EXCEPT ![p] = except_Locked]
    /\ task_result' = [task_result EXCEPT ![p] = "Locked"]
    /\ UNCHANGED <<lock_holder, task_writes, allowance_state, queued>>
    /\ TaskFrame

\* lines 27-28: scan_blocks_and_calculate_allowance.delay() adds one run to the queue
except_TimesUpError_none(q) == q
except_TimesUpError(q) == q + 1

\* line 24: utils.blocks.scan_blocks_and_calculate_allowance() runs to its end; on
\* TimesUpError (lines 27-28) the task queues itself again, inside the transaction;
\* any other exception rolls the transaction back
Scan(p, res) ==
    /\ task_pc[p] = "scan"
    /\ allowance_state < MaxScans
    /\ allowance_state' = IF res = "Exception" THEN allowance_state
                          ELSE allowance_state + 1
    /\ task_writes' = [task_writes EXCEPT ![p] = IF res = "Exception" THEN 0 ELSE 1]
    /\ queued' = IF res = "TimesUpError" THEN except_TimesUpError(queued) ELSE queued
    /\ task_pc' = [task_pc EXCEPT ![p] = "commit"]
    /\ task_result' = [task_result EXCEPT ![p] =
                          IF task_result[p] = "Locked" THEN "Locked"
                          ELSE IF res = "ok" THEN "returned" ELSE res]
    /\ UNCHANGED lock_holder
    /\ TaskFrame

\* line 21, the end of `with transaction.atomic(...)`: the transaction ends and the
\* lock goes with it
Commit(p) ==
    /\ task_pc[p] = "commit"
    /\ lock_holder' = IF lock_holder = p THEN 0 ELSE lock_holder
    /\ task_pc' = [task_pc EXCEPT ![p] = "done"]
    /\ UNCHANGED <<task_result, task_writes, allowance_state, queued>>
    /\ TaskFrame

\* the run is over, the worker process is free again
TaskEnd(p) ==
    /\ task_pc[p] = "done"
    /\ task_pc' = [task_pc EXCEPT ![p] = "idle"]
    /\ UNCHANGED <<lock_holder, task_result, task_writes, allowance_state, queued>>
    /\ TaskFrame

InitTask ==
    /\ RouteInit /\ online_count = [m \in Miners |-> 0]
    /\ RequestIdle
    /\ HandleIdle
    /\ MoreIdle
    /\ ReportIdle
    /\ JobIdle /\ disable_trusted_events = FALSE
    /\ CacheIdle
    /\ OracleIdle
    /\ UploadIdle
    /\ TransferIdle
    /\ LedgerIdle
    /\ TaskIdle

NextTask ==
    \/ \E p \in Procs : TaskStart(p)
    \/ \E p \in Procs : LockAcquired(p)
    \/ \E p \in Procs : Locked(p)
    \/ \E p \in Procs, res \in ScanOutcomes : Scan(p, res)
    \/ \E p \in Procs : Commit(p)
    \/ \E p \in Procs : TaskEnd(p)

SpecTask == InitTask /\ [][NextTask]_vars

\* C18: at most one process runs the block scan at any time, and a run of the task
\* that found the ALLOWANCE_FETCHING lock held observes Locked, scans nothing, changes
\* no allowance state and returns without error.
C18_OneScanner ==
    /\ Cardinality({p \in Procs : task_pc[p] = "scan"}) <= 1
    /\ \A p \in Procs :
          /\ task_pc[p] = "scan" => lock_holder = p
          /\ task_result[p] = "Locked" =>
                (task_pc[p] \in {"done", "idle"} /\ task_writes[p] = 0)

C18_Witness ==
    \E p, q \in Procs :
        /\ task_pc[p] = "scan"
        /\ task_result[q] = "Locked" /\ task_pc[q] = "done"

(***************************************************************************)
(* Allowance ledger (section 4.3). Earned seconds are kept per (miner,     *)
(* executor class, block) cell and a reservation holds seconds of          *)
(* particular cells (I1); evicting a block finalizes what was held of it.  *)
(***************************************************************************)
LedgerKeys == 1..NumKeys
LedgerBlocks == 1..MaxLedgerBlock
ResIds == 1..MaxReservations
NoAlloc == [b \in LedgerBlocks |-> 0]
NoReservation == [key |-> 0, state |-> "none", alloc |-> NoAlloc]

LedgerFrame == UNCHANGED <<coreVars, oracleVars, uploadVars, transferVars, taskVars, reportVars, requestVars, handleVars, moreVars>>

RECURSIVE SumTo(_, _)
SumTo(f, n) == IF n = 0 THEN 0 ELSE f[n] + SumTo(f, n - 1)

\* seconds of block b held by the reservations of key k in the given state
Held(k, b, state) ==
    SumTo([i \in ResIds |->
              IF ledger[i].key = k /\ ledger[i].state = state THEN ledger[i].alloc[b]
              ELSE 0], MaxReservations)

Earned(k) == SumTo([b \in LedgerBlocks |-> earned[k][b]], MaxLedgerBlock)
Spent(k) == SumTo([b \in LedgerBlocks |-> Held(k, b, "spent")], MaxLedgerBlock)
Active(k) == SumTo([b \in LedgerBlocks |-> Held(k, b, "active")], MaxLedgerBlock)
Free(k, b) == earned[k][b] - Held(k, b, "spent") - Held(k, b, "active")

\* available = earned - spent - active
available_unchecked(k) == MaxSeconds
available(k) == Earned(k) - Spent(k) - Active(k)

\* what a reservation of the given seconds takes of each block, oldest block first
RECURSIVE Take(_, _, _)
Take(k, seconds, b) ==
    IF b > MaxLedgerBlock THEN NoAlloc
    ELSE LET here == IF seconds < Free(k, b) THEN seconds ELSE Free(k, b)
             part == IF here < 0 THEN 0 ELSE here
         IN  [Take(k, seconds - part, b + 1) EXCEPT ![b] = part]

\* a block is scanned: every (miner, class) is credited what it earned in it
credit(amounts) ==
    /\ scanned < MaxLedgerBlock
    /\ scanned' = scanned + 1
    /\ earned' = [k \in LedgerKeys |-> [earned[k] EXCEPT ![scanned + 1] = amounts[k]]]
    /\ UNCHANGED <<ledger, res_last>>
    /\ LedgerFrame

reserve(k, seconds) ==
    /\ seconds > available(k) \/ \E i \in ResIds : ledger[i].state = "none"
    /\ LET i == CHOOSE i \in ResIds :
                   ledger[i].state = "none" /\ \A j \in ResIds : ledger[j].state = "none" => i <= j
           avail == available(k)
       IN  IF seconds > avail
           THEN /\ res_last' = [op |-> "reserve", id |-> 0,
                                outcome |-> "CannotReserveAllowance",
                                required |-> seconds, available |-> avail,
                                had |-> Earned(k) - Spent(k) - Active(k),
                                count |-> Cardinality({j \in ResIds : ledger[j].state # "none"})]
                /\ UNCHANGED ledger
           ELSE /\ ledger' = [ledger EXCEPT ![i] =
                                 [key |-> k, state |-> "active", alloc |-> Take(k, seconds, 1)]]
                /\ res_last' = [op |-> "reserve", id |-> i, outcome |-> "reserved",
                                required |-> seconds, available |-> avail,
                                had |-> Earned(k) - Spent(k) - Active(k),
                                count |-> Cardinality({j \in ResIds : ledger[j].state # "none"})]
    /\ UNCHANGED <<earned, scanned>>
    /\ LedgerFrame

\* spend, undo and expiry of a reservation
Transition(i, op, from, to, error) ==
    /\ ledger[i].state # "none" \/ op = "spend"
    /\ IF ledger[i].state \in from
       THEN /\ ledger' = [ledger EXCEPT ![i].state = to]
            /\ res_last' = [op |-> op, id |-> i, outcome |-> to, required |-> 0,
                            available |-> 0, had |-> 0, count |-> 0]
       ELSE /\ UNCHANGED ledger
            /\ res_last' = [op |-> op, id |-> i,
                            outcome |-> IF ledger[i].state = "none"
                                        THEN "ReservationNotFound" ELSE error,
                            required |-> 0, available |-> 0, had |-> 0, count |-> 0]
    /\ UNCHANGED <<earned, scanned>>
    /\ LedgerFrame

spend_released(i) ==
    Transition(i, "spend", {"active", "released", "expired"}, "spent", "ReservationAlreadySpent")

spend(i) == Transition(i, "spend", {"active"}, "spent", "ReservationAlreadySpent")
undo(i) == Transition(i, "undo", {"active", "released"}, "released", "ignored")
expire(i) ==
    ledger[i].state = "active" /\ Transition(i, "expire", {"active"}, "expired", "ignored")

\* the oldest block leaves the window: its cell and what was held of it go
garbage_collect(b) ==
    /\ b <= scanned
    /\ \A c \in LedgerBlocks : c < b => \A k \in LedgerKeys : earned[k][c] = 0
    /\ \E k \in LedgerKeys : earned[k][b] > 0
    /\ earned' = [k \in LedgerKeys |-> [earned[k] EXCEPT ![b] = 0]]
    /\ ledger' = [i \in ResIds |-> [ledger[i] EXCEPT !.alloc[b] = 0]]
    /\ res_last' = [op |-> "garbage_collect", id |-> 0, outcome |-> "none", required |-> 0,
                    available |-> 0, had |-> 0, count |-> 0]
    /\ UNCHANGED scanned
    /\ LedgerFrame

InitLedger ==
    /\ RouteInit /\ online_count = [m \in Miners |-> 0]
    /\ RequestIdle
    /\ HandleIdle
    /\ MoreIdle
    /\ ReportIdle
    /\ JobIdle /\ disable_trusted_events = FALSE
    /\ CacheIdle
    /\ OracleIdle
    /\ UploadIdle
    /\ TransferIdle
    /\ TaskIdle
    /\ LedgerIdle

NextLedger ==
    \/ \E amounts \in [LedgerKeys -> 0..MaxEarned] : credit(amounts)
    \/ \E k \in LedgerKeys, seconds \in 1..MaxSeconds : reserve(k, seconds)
    \/ \E i \in ResIds : spend(i)
    \/ \E i \in ResIds : undo(i)
    \/ \E i \in ResIds : expire(i)
    \/ \E b \in LedgerBlocks : garbage_collect(b)

SpecLedger == InitLedger /\ [][NextLedger]_vars

C20_NoBusyMiner ==
    [][\A u \in Uuids :
          (picked[u] = Unset /\ picked'[u] # Unset) =>
              /\ picked'[u] \in Miners =>
                    Cardinality({r \in started_receipts :
                                    /\ r.miner = picked'[u]
                                    /\ r.timestamp <= now /\ now < r.timestamp + r.ttl})
                        < online_count[picked'[u]]
              /\ (/\ Candidates # {}
                  /\ \A m \in Candidates :
                        Cardinality({r \in started_receipts :
                                        /\ r.miner = m
                                        /\ r.timestamp <= now /\ now < r.timestamp + r.ttl})
                            >= online_count[m])
                    => picked'[u] = "AllMinersBusy"]_vars

C20_Witness ==
    /\ \E u \in Uuids : picked[u] = "AllMinersBusy"
    /\ reservations = {}
    /\ \A m \in Miners :
          /\ online_count[m] > 0
          /\ Cardinality(ActiveStartedReceipts(m)) >= online_count[m]
(***************************************************************************)
(* The router over time (tests/test_job_routing.py): blacklist entries     *)
(* created with an expiration in the past or in the future, the clock      *)
(* moved past T_prelim, finished receipts.                                 *)
(***************************************************************************)
\* freeze_time().tick: the clock moves on
Wait ==
    /\ now < MaxWait
    /\ now' = now + 1
    /\ UNCHANGED <<online_count, blacklist, started_receipts, finished_receipts,
                   reservations, picked>>
    /\ UNCHANGED jobVars
    /\ UNCHANGED <<cacheVars, extVars>>

\* MinerBlacklist.objects.acreate(miner, reason, expires_at)
MinerBlacklistCreate(m, expires_at) ==
    /\ blacklist' = blacklist \cup {[miner |-> m, expires_at |-> expires_at]}
    /\ blacklist' # blacklist
    /\ UNCHANGED <<now, online_count, started_receipts, finished_receipts, reservations,
                   picked>>
    /\ UNCHANGED jobVars
    /\ UNCHANGED <<cacheVars, extVars>>

NextRoutingTime ==
    \/ Wait
    \/ \E u \in Uuids, m \in Miners \cup {"NoMinerForExecutorType", "AllMinersBusy"} :
          Pick(u, m)
    \/ \E m \in Miners, expires_at \in 1..MaxWait : MinerBlacklistCreate(m, expires_at)
    \/ \E u \in Uuids : InsertJobFinishedReceipt(u)

SpecRoutingTime == InitRouting /\ [][NextRoutingTime]_vars

\* C21: a pick raises NoMinerForExecutorType, and not AllMinersBusy, exactly when no
\* miner both declares online_executor_count > 0 and is free of unexpired blacklist
\* entries.
C21_NoMinerIffNoCandidate ==
    [][\A u \in Uuids :
          (picked[u] = Unset /\ picked'[u] # Unset) =>
              (picked'[u] = "NoMinerForExecutorType"
                  <=> \A m \in Miners :
                         \/ online_count[m] = 0
                         \/ \E b \in blacklist : b.miner = m /\ now < b.expires_at)]_vars

C21_Witness ==
    /\ now = 0
    /\ \A m \in Miners : online_count[m] > 0
    /\ blacklist # {}
    /\ \E u \in Uuids : picked[u] = "NoMinerForExecutorType"
\* C22: a blacklist entry excludes its miner from a pick only while its expires_at
\* lies in the future: a pick never returns a miner with an unexpired entry, and a
\* miner whose entries have all expired is selectable again with the entries still in
\* the table (a pick succeeds when such a miner is online and not held, and returns it
\* when it is the only online miner).
C22_ExpiredEntryIgnored ==
    [][\A u \in Uuids :
          (picked[u] = Unset /\ picked'[u] # Unset) =>
              /\ picked'[u] \in Miners =>
                    \A b \in blacklist : b.miner = picked'[u] => b.expires_at <= now
              /\ \A m \in Miners :
                    (/\ online_count[m] > 0
                     /\ \E b \in blacklist : b.miner = m
                     /\ \A b \in blacklist : b.miner = m => b.expires_at <= now
                     /\ \A r \in reservations :
                           r.miner = m =>
                              \/ now - r.created_at >= T_prelim
                              \/ r.job_uuid \in finished_receipts
                     /\ \A r \in started_receipts : r.miner # m)
                    => /\ picked'[u] \in Miners
                       /\ (\A x \in Miners \ {m} : online_count[x] = 0) => picked'[u] = m]_vars

C22_Witness ==
    \E r \in reservations, b \in blacklist :
        /\ b.miner = r.miner
        /\ b.expires_at <= r.created_at
        /\ picked[r.job_uuid] = r.miner
        /\ \E u \in Uuids : picked[u] = "NoMinerForExecutorType"
\* C23: a preliminary reservation stops blocking its miner as soon as a
\* JobFinishedReceipt of its job exists: with a single online miner of online_count 1
\* whose reservations younger than T_prelim all have a finished receipt, a pick for
\* another uuid returns that miner.
C23_LiftedByReceipt ==
    [][\A u \in Uuids, m \in Miners :
          (/\ picked[u] = Unset /\ picked'[u] # Unset
           /\ online_count[m] = 1
           /\ \A x \in Miners \ {m} : online_count[x] = 0
           /\ \A b \in blacklist : b.miner = m => b.expires_at <= now
           /\ \A r \in started_receipts : r.miner # m
           /\ \E r \in reservations :
                 r.miner = m /\ r.job_uuid # u /\ now - r.created_at < T_prelim
           /\ \A r \in reservations :
                 (r.miner = m /\ now - r.created_at < T_prelim) =>
                     r.job_uuid \in finished_receipts)
          => picked'[u] = m]_vars

C23_Witness ==
    \E r1, r2 \in reservations :
        /\ r1.job_uuid # r2.job_uuid
        /\ r1.miner = r2.miner
        /\ r2.created_at - r1.created_at < T_prelim
        /\ r1.created_at <= r2.created_at
        /\ r1.job_uuid \in finished_receipts
        /\ online_count[r1.miner] = 1
        /\ \A x \in Miners \ {r1.miner} : online_count[x] = 0

\* C24: a preliminary reservation without a finished receipt blocks its miner while
\* it is younger than T_prelim, and no longer once more than T_prelim seconds have
\* passed since the pick: a pick never returns a miner holding such a young
\* reservation, and returns the single online miner of online_count 1 when all its
\* reservations are older than T_prelim.
C24_LiftedAfterTimeout ==
    [][\A u \in Uuids, m \in Miners :
          (picked[u] = Unset /\ picked'[u] # Unset) =>
              /\ (\E r \in reservations :
                     /\ r.miner = m
                     /\ now - r.created_at < T_prelim
                     /\ r.job_uuid \notin finished_receipts)
                    => picked'[u] # m
              /\ (/\ online_count[m] = 1
                  /\ \A x \in Miners \ {m} : online_count[x] = 0
                  /\ \A b \in blacklist : b.miner = m => b.expires_at <= now
                  /\ \A r \in started_receipts : r.miner # m
                  /\ \E r \in reservations : r.miner = m
                  /\ \A r \in reservations : r.miner = m => now - r.created_at > T_prelim)
                    => picked'[u] = m]_vars

C24_Witness ==
    /\ finished_receipts = {}
    /\ started_receipts = {}
    /\ \E u \in Uuids : picked[u] = "AllMinersBusy"
    /\ \E r1, r2 \in reservations :
          /\ r1.miner = r2.miner
          /\ r2.created_at - r1.created_at > T_prelim
          /\ online_count[r1.miner] = 1
          /\ \A x \in Miners \ {r1.miner} : online_count[x] = 0
\* C25: a JobCheated report for a completed job blacklists the job's miner for the
\* configured time and leaves the job's driver state and status updates alone: the
\* `completed` update stays the last update of a job marked as cheated, and the next
\* job request with only that miner online is rejected with "No executor for job
\* request".
C25_CheatedBlacklistsOutOfBand ==
    [][\A j \in Jobs :
          /\ (j \in cheated' \ cheated) =>
                /\ [miner |-> job[j].miner,
                    expires_at |-> now + JOB_CHEATED_BLACKLIST_TIME] \in blacklist'
                /\ UNCHANGED <<pc, stage, job, db_job, exc, outcome, updates, events>>
          /\ (j \in cheated) =>
                /\ updates'[j] = updates[j]
                /\ LastUpdate(j).status = "completed"
                /\ pc'[j] = "done"
          /\ \A k \in Jobs :
                (/\ j \in cheated /\ RouteStep(k) /\ ~trusted[k]
                 /\ C6_OnlyCandidate(job[j].miner)
                 /\ \E b \in blacklist : b.miner = job[j].miner /\ now < b.expires_at)
                => /\ pc'[k] = "done"
                   /\ Statuses(k)' = <<"received", "rejected">>
                   /\ LastUpdate(k)'.comment = "No executor for job request"]_vars

C25_Witness ==
    \E j, k \in Jobs :
        /\ j \in cheated /\ db_job[j] = "COMPLETED" /\ job[j].miner \in Miners
        /\ LastUpdate(j).status = "completed"
        /\ blacklist = {[miner |-> job[j].miner,
                         expires_at |-> now + JOB_CHEATED_BLACKLIST_TIME]}
        /\ pc[k] = "done" /\ picked[k] = "NoMinerForExecutorType"
        /\ Statuses(k) = <<"received", "rejected">>
\* C26: no reservation leaves a terminal state: a spent reservation stays spent and a
\* spend of it fails with ReservationAlreadySpent, a spend of an unknown id fails with
\* ReservationNotFound, a released or expired reservation keeps its state (an undo of
\* a released reservation changes nothing), and only an active reservation becomes
\* spent.
C26_TerminalStates ==
    [][/\ \A i \in ResIds :
             /\ ledger[i].state \in {"spent", "released", "expired"} =>
                   ledger'[i].state = ledger[i].state
             /\ (ledger'[i].state = "spent" /\ ledger[i].state # "spent") =>
                   ledger[i].state = "active"
       /\ (res_last' # res_last /\ res_last'.op = "spend") =>
             /\ ledger[res_last'.id].state = "spent" =>
                   res_last'.outcome = "ReservationAlreadySpent" /\ ledger' = ledger
             /\ ledger[res_last'.id].state = "none" =>
                   res_last'.outcome = "ReservationNotFound" /\ ledger' = ledger
             /\ ledger[res_last'.id].state = "active" => res_last'.outcome = "spent"
       /\ (res_last' # res_last /\ res_last'.op = "undo"
             /\ ledger[res_last'.id].state = "released") => ledger' = ledger]_vars

C26_Witness ==
    /\ res_last.op = "spend" /\ res_last.outcome = "ReservationAlreadySpent"
    /\ ledger[res_last.id].state = "spent"
    /\ \E i \in ResIds : ledger[i].state \in {"released", "expired"}
(***************************************************************************)
(* set_starting_block called from several consumer threads                 *)
(* (supertensor.py, lines 549-552): the attribute is loaded, max() is      *)
(* called, and the result is stored, with no lock held; the producer       *)
(* thread runs beside them.                                                *)
(***************************************************************************)
Consumers == 1..NumConsumers
RequestBlocks == 1..MaxRequestBlock

RequestFrame ==
    /\ UNCHANGED <<closing, cache, throw_on_cache_miss, enable_workers, task_queue,
                   current_block, wpc, wtask, ppc, close_pc, the_end_puts, ret, reads>>
    /\ UNCHANGED <<routeVars, jobVars>>
    /\ UNCHANGED <<oracleVars, uploadVars, transferVars, taskVars, ledgerVars, reportVars,
                   handleVars, moreVars>>

\* line 550, right-hand side: max(self.highest_block_requested or 0, block_number)
set_starting_block_max(t, b) ==
    /\ rq_pc[t] = "idle"
    /\ rq_calls < MaxRequests
    /\ rq_calls' = rq_calls + 1
    /\ requested' = requested \cup {b}
    /\ rq_first' = IF rq_calls = 0 THEN b ELSE rq_first
    /\ rq_block' = [rq_block EXCEPT ![t] = b]
    /\ rq_max' = [rq_max EXCEPT ![t] =
                     Max(IF highest_block_requested = None THEN 0
                         ELSE highest_block_requested, b)]
    /\ rq_pc' = [rq_pc EXCEPT ![t] = "store"]
    /\ UNCHANGED <<highest_block_requested, highest_block_submitted>>
    /\ RequestFrame

\* line 550, the assignment: self.highest_block_requested = ...
set_starting_block_store(t) ==
    /\ rq_pc[t] = "store"
    /\ highest_block_requested' = rq_max[t]
    /\ rq_pc' = [rq_pc EXCEPT ![t] = "submitted"]
    /\ UNCHANGED <<highest_block_submitted, rq_block, rq_max, rq_calls, requested,
                   rq_first>>
    /\ RequestFrame

\* line 551: the test of `self.highest_block_submitted is None`, no lock held
set_starting_block_submitted(t) ==
    /\ rq_pc[t] = "submitted"
    /\ rq_pc' = [rq_pc EXCEPT ![t] =
                    IF highest_block_submitted = None THEN "assign" ELSE "idle"]
    /\ UNCHANGED <<highest_block_requested, highest_block_submitted, rq_block, rq_max,
                   rq_calls, requested, rq_first>>
    /\ RequestFrame

\* line 552: self.highest_block_submitted = block_number - 1
set_starting_block_assign(t) ==
    /\ rq_pc[t] = "assign"
    /\ highest_block_submitted' = rq_block[t] - 1
    /\ rq_pc' = [rq_pc EXCEPT ![t] = "idle"]
    /\ UNCHANGED <<highest_block_requested, rq_block, rq_max, rq_calls, requested,
                   rq_first>>
    /\ RequestFrame

\* a PrecachingSuperTensor with its producer, at any height of the chain
InitRequests ==
    /\ RouteInit /\ online_count = [m \in Miners |-> 0]
    /\ JobIdle /\ disable_trusted_events = FALSE
    /\ ExtIdle
    /\ closing = FALSE
    /\ cache = EmptyCache
    /\ throw_on_cache_miss = FALSE
    /\ enable_workers = TRUE
    /\ task_queue = <<>>
    /\ highest_block_requested = None
    /\ highest_block_submitted = None
    /\ current_block \in 0..MaxRequestBlock
    /\ wpc = [w \in Workers |-> "off"]
    /\ wtask = [w \in Workers |-> NoTask]
    /\ ppc = "loop"
    /\ close_pc = "open"
    /\ the_end_puts = 0
    /\ ret = NoRet
    /\ reads = 0

NextRequests ==
    \/ \E t \in Consumers, b \in RequestBlocks : set_starting_block_max(t, b)
    \/ \E t \in Consumers : set_starting_block_store(t)
    \/ \E t \in Consumers : set_starting_block_submitted(t)
    \/ \E t \in Consumers : set_starting_block_assign(t)
    \/ \E res \in {"ok", "CannotGetCurrentBlock", "Exception"} : produce_thread(res)
    \/ ProducerWake
    \/ NewBlock

SpecRequests == InitRequests /\ [][NextRequests]_vars

\* C27: the producer submits block highest_submitted + 1 only in an iteration in which
\* highest_submitted - highest_requested < CACHE_AHEAD and highest_submitted <
\* current_block hold; in every state highest_submitted <= highest_requested +
\* CACHE_AHEAD, and no block greater than the current block is ever submitted.
C27_ProducerWindow ==
    [][/\ task_queue' # task_queue =>
             /\ highest_block_submitted # None /\ highest_block_requested # None
             /\ highest_block_submitted - highest_block_requested < CACHE_AHEAD
             /\ highest_block_submitted < current_block
             /\ highest_block_submitted' = highest_block_submitted + 1
             /\ task_queue' = task_queue \o BlockTasks(highest_block_submitted + 1)
       /\ (highest_block_submitted' # None /\ highest_block_requested' # None) =>
             highest_block_submitted' <= highest_block_requested' + CACHE_AHEAD
       /\ \A i \in 1..Len(task_queue') : task_queue'[i][2] <= current_block']_vars

\* C28: highest_requested never decreases, and once the requests made so far have
\* returned it equals the highest block requested so far.
C28_HighestRequestedIsMax ==
    [][/\ highest_block_requested' >= highest_block_requested
       /\ (requested' # {} /\ \A t \in Consumers : rq_pc'[t] = "idle") =>
             /\ highest_block_requested' \in requested'
             /\ \A b \in requested' : b <= highest_block_requested']_vars
\* C29 as stated: the prefetch cache is mutated only by worker tasks; no consumer read
\* writes to it, whether it hits or misses.
C29_OnlyWorkersMutate ==
    [][cache' # cache => \E w \in Workers : wpc[w] = "task" /\ wpc'[w] # "task"]_vars

\* C29, amended: the prefetch cache is mutated only by worker tasks and by consumer
\* reads that miss while throw_on_cache_miss is unset; a consumer read that hits, or
\* that misses with throw_on_cache_miss set, does not write, and a read that writes
\* stores chain values of the block it was asked for in entries that were empty.
C29_OnlyWorkersAndMissesMutate ==
    [][/\ cache' # cache =>
             \/ \E w \in Workers : wpc[w] = "task" /\ wpc'[w] # "task"
             \/ reads' # reads
       /\ (reads' # reads /\ cache' # cache) =>
             /\ ~throw_on_cache_miss
             /\ cache[ret'.kind][ret'.block] = NoValue
             /\ ret'.outcome \in {"fetched", "error"}
             /\ \A k \in Kinds, b \in Blocks :
                   cache'[k][b] # cache[k][b] =>
                      /\ b = ret'.block
                      /\ cache[k][b] = NoValue
                      /\ cache'[k][b] = ChainValue(k, b)]_vars

C29_Witness ==
    /\ ~enable_workers
    /\ ret.outcome = "fetched" /\ ret.kind = "NEURONS"
    /\ reads = 1
    /\ cache = Put(EmptyCache, "NEURONS", ret.block, ChainValue("NEURONS", ret.block))
(***************************************************************************)
(* The worker threads with the SuperTensor each of them holds              *)
(* (supertensor.py, lines 433-509): the outer loop constructs one, the     *)
(* finally clause closes it when the inner loop is left.                   *)
(***************************************************************************)
HandleFrame ==
    /\ UNCHANGED <<routeVars, jobVars>>
    /\ UNCHANGED <<oracleVars, uploadVars, transferVars, taskVars, ledgerVars, reportVars,
                   requestVars, moreVars>>

\* lines 434-442: the next SuperTensor of a worker
NewSuperTensor(h) == 3 - h

except_SuperTensor_kept(res, h) == h

\* lines 503-509 and 434-442: after ArchiveSubtensorNotConfigured the finally clause
\* closes the SuperTensor and the outer loop constructs another; after another
\* exception this happens once the sleep is over
except_SuperTensor(res, h) ==
    IF res = "ArchiveSubtensorNotConfigured" THEN NewSuperTensor(h) ELSE h

WorkerTaskSuperTensor(w, res) ==
    /\ worker_task(w, res)
    /\ whandle' = [whandle EXCEPT ![w] = except_SuperTensor(res, @)]
    /\ HandleFrame

\* lines 507-509 and 434-442
WorkerWakeSuperTensor(w) ==
    /\ worker_sleep_over(w)
    /\ whandle' = [whandle EXCEPT ![w] = NewSuperTensor(@)]
    /\ HandleFrame

\* a PrecachingSuperTensor with enable_workers set: every worker has constructed its
\* first SuperTensor
InitWorkers ==
    /\ RouteInit /\ online_count = [m \in Miners |-> 0]
    /\ JobIdle /\ disable_trusted_events = FALSE
    /\ OracleIdle /\ UploadIdle /\ TransferIdle /\ TaskIdle /\ LedgerIdle
    /\ MoreIdle
    /\ ReportIdle /\ RequestIdle
    /\ whandle = [w \in Workers |-> 1]
    /\ closing = FALSE
    /\ cache = EmptyCache
    /\ throw_on_cache_miss \in BOOLEAN
    /\ enable_workers = TRUE
    /\ task_queue = <<>>
    /\ highest_block_requested = None
    /\ highest_block_submitted = None
    /\ current_block = 0
    /\ wpc = [w \in Workers |-> "loop"]
    /\ wtask = [w \in Workers |-> NoTask]
    /\ ppc = "loop"
    /\ close_pc = "open"
    /\ the_end_puts = 0
    /\ ret = NoRet
    /\ reads = 0

NextWorkers ==
    \/ \E b \in Blocks, ok \in BOOLEAN : list_neurons(b, ok)
    \/ \E b \in Blocks, ok \in BOOLEAN : get_block_timestamp(b, ok)
    \/ \E b \in Blocks, ok \in BOOLEAN : get_block_hash(b, ok)
    \/ \E b \in Blocks, ok \in BOOLEAN : get_subnet_state(b, ok)
    \/ \E b \in Blocks, fail_at \in {"none", "neurons", "subnet_state"} :
          list_validators(b, fail_at)
    \/ \E w \in Workers : WorkerCheckClosing(w)
    \/ \E w \in Workers : WorkerGet(w)
    \/ \E w \in Workers, res \in ChainResults : WorkerTaskSuperTensor(w, res)
    \/ \E w \in Workers : WorkerWakeSuperTensor(w)
    \/ ProducerStep
    \/ Close
    \/ ClosePut
    \/ NewBlock

SpecWorkers == InitWorkers /\ [][NextWorkers]_vars

SeqSet(s) == {s[i] : i \in 1..Len(s)}
IsPrefix(s, t) == Len(s) <= Len(t) /\ s = SubSeq(t, 1, Len(s))
\* the pages catch_up transferred in run r during the given phase, in order
RunPages(r, phase) ==
    LET own == SelectSeq(tr_log, LAMBDA e : e.run = r /\ e.by = "catch_up"
                                            /\ e.phase = phase)
    IN  [i \in 1..Len(own) |-> own[i].pages[1]]

\* C31: in daemon mode every run_in_loop first sweeps the N_ACTIVE_PAGES hot pages and
\* starts neither loop before the sweep is complete; its catch-up loop visits the pages
\* of [cutoff_page, current_page - N_ACTIVE_PAGES] newest first, each once, and has
\* visited all of them when it ends; the cold and the hot pages are disjoint and
\* together cover [cutoff_page, current_page].
C31_DaemonPages ==
    tr_mode = "daemon" =>
        /\ SeqSet(ColdPages) \cap SeqSet(HotPages) = {}
        /\ (cutoff_page..current_page) \subseteq (SeqSet(ColdPages) \cup SeqSet(HotPages))
        /\ \A i \in 1..(Len(ColdPages) - 1) : ColdPages[i] > ColdPages[i + 1]
        /\ \A r \in 1..tr_run :
              /\ IsPrefix(RunPages(r, "hot"), HotPages)
              /\ IsPrefix(RunPages(r, "gather"), ColdPages)
              /\ \A i \in 1..Len(tr_log) :
                    tr_log[i].run = r /\ tr_log[i].phase = "gather"
                        => RunPages(r, "hot") = HotPages
        /\ (tr_pc = "run" /\ tr_phase = "gather" /\ cu_pc = "off")
              => RunPages(tr_run, "gather") = ColdPages

\* a run whose catch-up loop has gone through more than one cold page and ended while
\* keep_up goes on
C31_Witness ==
    /\ tr_mode = "daemon" /\ tr_pc = "run" /\ tr_phase = "gather"
    /\ cu_pc = "off" /\ ku_pc # "off"
    /\ Len(ColdPages) > 1
    /\ RunPages(tr_run, "gather") = ColdPages

\* C32: while keep_up waits out the rest of its interval, catch_up can take its next
\* step (consult the switch, read the miners, transfer a page).
C32_KeepUpWaitDoesNotBlock ==
    (/\ tr_pc = "run" /\ tr_phase = "gather" /\ ku_pc = "sleep"
     /\ \/ cu_pc \in {"check", "miners"}
        \/ cu_pc = "transfer" /\ Len(tr_log) < MaxTransfers)
        => ENABLED (CatchUpCheck \/ CatchUpMiners \/ CatchUpTransfer)

\* loops of one kind that are running: the one of the current run, and those of ended
\* runs that have got past a consultation of the switch since
ActiveLoops(by) ==
    (IF tr_pc = "run" /\ (IF by = "catch_up" THEN cu_pc ELSE ku_pc) # "off" THEN 1 ELSE 0)
    + Cardinality({o \in orphans : o.by = by /\ o.passed})

\* C33: at most one catch-up loop and one keep-up loop are active at any time, and a
\* loop of a run_in_loop that has ended (one of its loops raised TransferIsDisabled)
\* starts no further transfer, on the closed session or otherwise.
C33_OneLoopOfEachKind ==
    /\ ActiveLoops("catch_up") <= 1
    /\ ActiveLoops("keep_up") <= 1
    /\ \A i \in 1..Len(tr_log) : ~tr_log[i].orphan
(***************************************************************************)
(* upload_post / upload_put under @retry (output_upload/_uploader.py,       *)
(* lines 33-53 and 230-283).                                                *)
(***************************************************************************)
\* @retry(max_retries=3, exceptions=OutputUploadFailed), defaults of retry()
max_retries == 3
initial_delay == 1
backoff_factor == 2
MaxFileSize == 2
\* how one attempt ends: response.raise_for_status() passed, httpx.HTTPError turned
\* into OutputUploadFailed (261-262, 282-283), or any other exception
AttemptOutcomes == {"ok", "OutputUploadFailed", "OtherException"}

RetryFrame == UNCHANGED <<coreVars, oracleVars, uploadVars, transferVars, taskVars,
                          ledgerVars, reportVars, requestVars, handleVars,
                          backendVars, singletonVars>>

\* `except exceptions as exc` with exceptions=OutputUploadFailed (line 43)
except_exceptions_any(how) == how # "ok"
except_exceptions(how) == how = "OutputUploadFailed"

\* the call of the decorated function: wrapper, lines 38-40; the file object may have
\* been read before
upload_call(method, position) ==
    /\ rt_pc = "idle"
    /\ rt_method' = method
    /\ rt_fp' = position
    /\ rt_delay' = initial_delay
    /\ rt_i' = 0
    /\ rt_pc' = "attempt"
    /\ UNCHANGED <<rt_log, rt_sleeps, rt_result>>
    /\ RetryFrame

\* fp.seek(0), lines 240 and 267
seek(position, offset) == offset

\* lines 41-47 around one run of upload_post / upload_put: fp.seek(0), the request
\* reading `sent` bytes of the file (all of it when the upload succeeds), and the
\* wrapper's handling of the outcome
wrapper_attempt(how, sent) ==
    /\ rt_pc = "attempt"
    /\ rt_i < max_retries
    /\ how = "ok" => sent = MaxFileSize
    /\ rt_log' = Append(rt_log, [start |-> seek(rt_fp, 0), sent |-> sent, outcome |-> how])
    /\ rt_fp' = seek(rt_fp, 0) + sent
    /\ IF how = "ok"
       THEN rt_pc' = "done" /\ rt_result' = "returned"
       ELSE IF ~except_exceptions(how) \/ rt_i = max_retries - 1
       THEN rt_pc' = "done" /\ rt_result' = how
       ELSE rt_pc' = "sleep" /\ UNCHANGED rt_result
    /\ UNCHANGED <<rt_method, rt_i, rt_delay, rt_sleeps>>
    /\ RetryFrame

\* lines 48-49 and the next turn of the for loop
wrapper_sleep ==
    /\ rt_pc = "sleep"
    /\ rt_sleeps' = Append(rt_sleeps, rt_delay)
    /\ rt_delay' = rt_delay * backoff_factor
    /\ rt_i' = rt_i + 1
    /\ rt_pc' = "attempt"
    /\ UNCHANGED <<rt_method, rt_fp, rt_log, rt_result>>
    /\ RetryFrame

InitRetry ==
    /\ RouteInit /\ online_count = [m \in Miners |-> 0]
    /\ JobIdle /\ disable_trusted_events = FALSE
    /\ CacheIdle
    /\ ExtIdle

NextRetry ==
    \/ \E method \in {"post", "put"}, position \in 0..MaxFileSize :
          upload_call(method, position)
    \/ \E how \in AttemptOutcomes, sent \in 0..MaxFileSize :
          /\ how = "ok" => sent = MaxFileSize
          /\ wrapper_attempt(how, sent)
    \/ wrapper_sleep

SpecRetry == InitRetry /\ [][NextRetry]_vars

\* C34: upload_post and upload_put make at most 3 attempts, each sending the file from
\* its start; they sleep 1 s after the first failed attempt and 2 s after the second,
\* retry only after OutputUploadFailed, re-raise it after the third failed attempt
\* without another sleep, and let any other exception out at once.
C34_RetryOnUploadFailureOnly ==
    /\ Len(rt_log) <= 3
    /\ \A k \in 1..Len(rt_log) : rt_log[k].start = 0
    /\ \A k \in 1..(Len(rt_log) - 1) : rt_log[k].outcome = "OutputUploadFailed"
    /\ IsPrefix(rt_sleeps, <<1, 2>>)
    /\ rt_pc = "attempt" => Len(rt_sleeps) = Len(rt_log)
    /\ rt_pc = "sleep" => Len(rt_sleeps) = Len(rt_log) - 1 /\ Len(rt_log) < 3
    /\ rt_pc = "done" =>
          /\ Len(rt_sleeps) = Len(rt_log) - 1
          /\ rt_result = (IF rt_log[Len(rt_log)].outcome = "ok" THEN "returned"
                          ELSE rt_log[Len(rt_log)].outcome)
          /\ rt_result = "OutputUploadFailed" => Len(rt_log) = 3

\* three failed attempts, the later ones made after the file had been read in part
C34_Witness ==
    /\ rt_pc = "done" /\ rt_result = "OutputUploadFailed"
    /\ Len(rt_log) = 3 /\ rt_sleeps = <<1, 2>>
    /\ rt_log[1].sent > 0 /\ rt_log[2].start = 0
(***************************************************************************)
(* drive_organic_job with the JobStartedReceipt table as the driver finds   *)
(* it: the row of the job may be absent when a decline is handled.          *)
(***************************************************************************)
TerminalUpdates == {"completed", "failed", "rejected"}
TerminalJobStatuses == {"COMPLETED", "FAILED", "EXCUSED", "REJECTED"}
TerminalsOf(j) ==
    SelectSeq(updates[j], LAMBDA u : u.status \in TerminalUpdates)

\* the job's JobStartedReceipt is not in the table while the miner's answer to the
\* initial job request is awaited
JobStartedReceiptMissing(j) ==
    /\ pc[j] = "wait" /\ stage[j] = "SENT"
    /\ \E r \in started_receipts : r.job_uuid = j
    /\ started_receipts' = {r \in started_receipts : r.job_uuid # j}
    /\ UNCHANGED <<now, online_count, blacklist, finished_receipts, reservations, picked>>
    /\ UNCHANGED <<jobVars, cacheVars, extVars>>

\* the requests, the miner's answers and the driver, left to run uncancelled
NextDrive ==
    \/ \E j \in Jobs, t \in BOOLEAN : JobRequest(j, t)
    \/ \E j \in Jobs, m \in Miners \cup {TRUSTED_MINER_FAKE_KEY, "NoMinerForExecutorType",
                                        "AllMinersBusy"} : Route(j, m)
    \/ \E j \in Jobs : execute_organic_job_request(j)
    \/ \E j \in Jobs : DriveStart(j)
    \/ \E j \in Jobs, ok \in BOOLEAN : Connect(j, ok)
    \/ \E j \in Jobs : JobStartedReceiptMissing(j)
    \/ \E j \in Jobs : MinerAccept(j)
    \/ \E j \in Jobs : MinerProgress(j)
    \/ \E j \in Jobs : MinerFinished(j)
    \/ \E j \in Jobs, reason \in DeclineReasons, receipts \in ReceiptLists :
          MinerDecline(j, reason, receipts)
    \/ \E j \in Jobs : MinerExecutorFailed(j)
    \/ \E j \in Jobs, error_type \in ErrorTypes : MinerJobFailed(j, error_type)
    \/ \E j \in Jobs, reason \in {"INITIAL_RESPONSE_TIMED_OUT",
             "EXECUTOR_READINESS_RESPONSE_TIMED_OUT", "STREAMING_JOB_READY_TIMED_OUT",
             "FINAL_RESPONSE_TIMED_OUT"} : Timeout(j, reason)
    \/ \E j \in Jobs : SaveJob(j)
    \/ \E j \in Jobs : SaveEvent(j)
    \/ \E j \in Jobs : Notify(j)
    \/ \E j \in Jobs : AfterJob(j)

SpecDrive == InitJob /\ [][NextDrive]_vars

\* C35: a call of drive_organic_job that is not cancelled ends by returning: True
\* after it has persisted COMPLETED and emitted `completed`, False after it has
\* persisted a terminal status and emitted exactly one `failed` or `rejected`; no
\* failure reason of run_organic_job and no missing JobStartedReceipt on a BUSY decline
\* makes it end otherwise.
C35_DriverAlwaysReturns ==
    \A j \in Jobs :
        /\ pc[j] # "raised"
        /\ pc[j] \in {"returned", "done"} /\ job[j] # NoJob =>
              /\ db_job[j] \in TerminalJobStatuses
              /\ Len(TerminalsOf(j)) = 1
              /\ TerminalsOf(j)[1].status = "completed" <=> db_job[j] = "COMPLETED"
              /\ updates[j][Len(updates[j])].status \in TerminalUpdates
(***************************************************************************)
(* The order of the producer's submissions (supertensor.py, lines 515-552). *)
(* No worker runs in SpecRequests, so task_queue holds every task the       *)
(* producer has put, in the order of the puts.                              *)
(***************************************************************************)
\* the tasks of the k-th submission, k counted from 0
Submission(k) == SubSeq(task_queue, 5 * k + 1, 5 * k + 5)

Submissions == Len(task_queue) \div 5

\* C36: the producer submits blocks in strictly increasing consecutive order starting
\* at the first block ever requested, each block once and with no gap; each submitted
\* block gets exactly the five tasks NEURONS, BLOCK_TIMESTAMP, BLOCK_HASH, SUBNET_STATE
\* and VALIDATORS before highest_submitted advances; no block below the first
\* requested block is submitted.
C36_ConsecutiveSubmission ==
    /\ Len(task_queue) = 5 * Submissions
    /\ \A k \in 0..(Submissions - 1) : Submission(k) = BlockTasks(rq_first + k)
    /\ Submissions > 0 => highest_block_submitted = rq_first + Submissions - 1
(***************************************************************************)
(* The cache backends (supertensor.py, lines 331-399;                      *)
(* supertensor_django_cache.py, lines 14-103).  BaseCache is an abc.ABC     *)
(* with ten abstract methods, a put and a get for each kind of datum; a     *)
(* subclass that leaves one of them undefined cannot be instantiated: its   *)
(* constructor raises TypeError.  A value is a pair <<data, extra>>; in a   *)
(* list of neurons extra = 1 says that subnet and prometheus_info are set.  *)
(***************************************************************************)
BackendFrame == UNCHANGED <<coreVars, oracleVars, uploadVars, transferVars, taskVars,
                            ledgerVars, reportVars, requestVars, handleVars,
                            retryVars, singletonVars>>

PutBlocks == 1..MaxPutBlock
Values == (1..MaxDatum) \X (0..1)

\* the abstract methods of BaseCache, lines 331-360
BaseCache == {<<op, k>> : op \in {"put", "get"}, k \in Kinds}

\* the methods InMemoryCache defines, lines 371-399
InMemoryCache == BaseCache

\* the methods DjangoCache defines, lines 22-103 of supertensor_django_cache.py:
\* neither put_block_hash nor get_block_hash
DjangoCache == {m \in BaseCache : m[2] # "BLOCK_HASH"}

Defines(cls) == IF cls = "InMemoryCache" THEN InMemoryCache ELSE DjangoCache

\* cls.__abstractmethods__
abstractmethods(cls) == BaseCache \ Defines(cls)

\* pickle.dumps and pickle.loads
dumps(v) == <<"pickle", v>>
loads(p) == p[2]

\* cls(): object construction under ABCMeta
cache_init(cls) ==
    /\ bk_pc = "new"
    /\ bk_cls' = cls
    /\ bk_pc' = IF abstractmethods(cls) = {} THEN "ready" ELSE "TypeError"
    /\ UNCHANGED <<bk_store, bk_given, bk_last, bk_puts>>
    /\ BackendFrame

\* put_neurons, put_block_timestamp, put_block_hash, put_subnet_state, put_validators;
\* DjangoCache.put_neurons clears subnet and prometheus_info of every neuron
put_kind(k, b, v) ==
    /\ bk_pc = "ready"
    /\ <<"put", k>> \in Defines(bk_cls)
    /\ bk_puts < MaxPuts
    /\ bk_puts' = bk_puts + 1
    /\ bk_store' = [bk_store EXCEPT ![k][b] =
                       IF bk_cls = "DjangoCache"
                       THEN dumps(IF k = "NEURONS" THEN <<v[1], 0>> ELSE v)
                       ELSE v]
    /\ bk_given' = [bk_given EXCEPT ![k][b] = v]
    /\ UNCHANGED <<bk_pc, bk_cls, bk_last>>
    /\ BackendFrame

\* get_neurons, get_block_timestamp, get_block_hash, get_subnet_state, get_validators
get_kind(k, b) ==
    /\ bk_pc = "ready"
    /\ <<"get", k>> \in Defines(bk_cls)
    /\ bk_last' = [op |-> "get", kind |-> k, block |-> b,
                   result |-> IF bk_store[k][b] = NoValue THEN NoValue
                              ELSE IF bk_cls = "DjangoCache" THEN loads(bk_store[k][b])
                              ELSE bk_store[k][b]]
    /\ UNCHANGED <<bk_pc, bk_cls, bk_store, bk_given, bk_puts>>
    /\ BackendFrame

InitBackends ==
    /\ RouteInit /\ online_count = [m \in Miners |-> 0]
    /\ JobIdle /\ disable_trusted_events = FALSE
    /\ CacheIdle
    /\ ExtIdle

NextBackends ==
    \/ \E cls \in {"InMemoryCache", "DjangoCache"} : cache_init(cls)
    \/ \E k \in Kinds, b \in PutBlocks, v \in Values : put_kind(k, b, v)
    \/ \E k \in Kinds, b \in PutBlocks : get_kind(k, b)

SpecBackends == InitBackends /\ [][NextBackends]_vars

\* C37: on both cache backends, the in-memory one and the persistent one, and for every
\* kind of datum, a put for (kind, B) followed by a get for (kind, B) within the TTL
\* returns the stored value, a get for a key never put returns absent, and entries of
\* different kinds or blocks never overwrite each other: each backend can be built,
\* and every get returns what the last put for its own (kind, B) was given.
C37_PutThenGet ==
    [][/\ bk_pc' # "TypeError"
       /\ bk_pc' = "ready" => Defines(bk_cls') = BaseCache
       /\ bk_last' # bk_last =>
             bk_last'.result = bk_given[bk_last'.kind][bk_last'.block]]_vars
(***************************************************************************)
(* MultiUploadOutputUploader.upload (_uploader.py, lines 138-217): the     *)
(* checks of the loop and of the system output come before asyncio.gather. *)
(***************************************************************************)
\* C38: MultiUpload validates before it uploads: when a listed file does not exist, or
\* a listed upload or the system output has an unsupported type, upload() raises
\* OutputUploadFailed and no network upload has been performed for any file; once the
\* uploads have started, the failure of one upload neither rolls back nor cancels the
\* others, and the upload as a whole ends in error.
C38_ValidateBeforeUpload ==
    [][\A u \in Uploaders :
          /\ up_pc'[u] = "loop" => (up_running'[u] = 0 /\ ~up_zip_running'[u])
          /\ (up_pc[u] = "loop" /\ up_pc'[u] = "failed" /\ up_zip'[u] = up_zip[u]) =>
                /\ up_running[u] = 0 /\ ~up_zip_running[u]
                /\ up_running'[u] = 0 /\ ~up_zip_running'[u]
          /\ (up_kind[u] = "multi" /\ up_running'[u] < up_running[u]) =>
                /\ up_running'[u] = up_running[u] - 1
                /\ up_zip_running'[u] = up_zip_running[u]
          /\ (up_kind[u] = "multi" /\ up_zip_running[u] /\ ~up_zip_running'[u]) =>
                up_running'[u] = up_running[u]
          /\ up_pc[u] = "failed" => up_pc'[u] = "failed"]_vars

C38_Witness ==
    /\ \E u \in Uploaders :
          /\ up_kind[u] = "multi" /\ up_pc[u] = "failed"
          /\ up_tasks[u] > 0 /\ up_left[u] > 0 /\ up_running[u] = 0
    /\ \E v \in Uploaders :
          /\ up_kind[v] = "multi" /\ up_pc[v] = "failed" /\ up_running[v] > 0
(***************************************************************************)
(* The follow-up run of the block scan (allowance/tasks.py, lines 16-28).  *)
(* celery hands a queued run to a free worker process, a run that has its   *)
(* scan behind it ends its transaction, and a free lock is given to a run   *)
(* that waits for it.                                                       *)
(***************************************************************************)
SpecTaskFair ==
    /\ SpecTask
    /\ WF_vars(\E p \in Procs : queued > 0 /\ TaskStart(p))
    /\ WF_vars(\E p \in Procs : LockAcquired(p))
    /\ WF_vars(\E p \in Procs : Commit(p))
    /\ WF_vars(\E p \in Procs : TaskEnd(p))

Callers == 1..NumCallers

SingletonFrame == UNCHANGED <<coreVars, oracleVars, uploadVars, transferVars, taskVars,
                              ledgerVars, reportVars, requestVars, handleVars,
                              retryVars, backendVars>>

\* PrecachingSuperTensor.__init__, lines 411-431, as called at lines 645-648: with
\* enable_workers=False neither start_workers nor start_producer is called
PrecachingSuperTensor(cache_cls, workers) ==
    [cache |-> cache_cls, enable_workers |-> workers,
     producer |-> workers, workers |-> IF workers THEN N_THREADS ELSE 0,
     task_queue |-> <<>>]

\* line 642: `if _supertensor_instance is None`; when it is not, line 649 returns it
supertensor_test(t) ==
    /\ st_pc[t] = "idle"
    /\ st_calls[t] < MaxCalls
    /\ st_calls' = [st_calls EXCEPT ![t] = st_calls[t] + 1]
    /\ IF supertensor_instance = 0
       THEN /\ st_pc' = [st_pc EXCEPT ![t] = "build"]
            /\ st_ret' = [st_ret EXCEPT ![t] = [how |-> "none", obj |-> 0]]
       ELSE /\ st_ret' = [st_ret EXCEPT ![t] =
                             [how |-> "returned", obj |-> supertensor_instance]]
            /\ UNCHANGED st_pc
    /\ UNCHANGED <<supertensor_instance, constructed>>
    /\ SingletonFrame

\* lines 643-649: DjangoCache() is evaluated first; when it raises, nothing is
\* constructed or assigned and the call raises; otherwise the new object is assigned
\* to the global and returned
supertensor_build(t) ==
    /\ st_pc[t] = "build"
    /\ st_pc' = [st_pc EXCEPT ![t] = "idle"]
    /\ IF abstractmethods("DjangoCache") # {}
       THEN /\ st_ret' = [st_ret EXCEPT ![t] = [how |-> "TypeError", obj |-> 0]]
            /\ UNCHANGED <<supertensor_instance, constructed>>
       ELSE /\ constructed' =
                  Append(constructed, PrecachingSuperTensor("DjangoCache", FALSE))
            /\ supertensor_instance' = Len(constructed) + 1
            /\ st_ret' = [st_ret EXCEPT ![t] =
                             [how |-> "returned", obj |-> Len(constructed) + 1]]
    /\ UNCHANGED st_calls
    /\ SingletonFrame

InitSingleton ==
    /\ RouteInit /\ online_count = [m \in Miners |-> 0]
    /\ JobIdle /\ disable_trusted_events = FALSE
    /\ CacheIdle
    /\ ExtIdle

NextSingleton ==
    \/ \E t \in Callers : supertensor_test(t)
    \/ \E t \in Callers : supertensor_build(t)

SpecSingleton == InitSingleton /\ [][NextSingleton]_vars

\* C40: the process-wide oracle is constructed once: for any interleaving of
\* supertensor() calls from several threads, concurrent first calls included, at most
\* one PrecachingSuperTensor is ever constructed, every call returns that same
\* instance, and the instance runs in consumer mode: no producer, no workers, nothing
\* ever enqueued.
C40_ConstructedOnce ==
    /\ Len(constructed) <= 1
    /\ \A t \in Callers :
          (st_calls[t] > 0 /\ st_pc[t] = "idle") =>
              /\ st_ret[t].how = "returned"
              /\ st_ret[t].obj = 1 /\ Len(constructed) = 1
    /\ \A i \in 1..Len(constructed) :
          /\ ~constructed[i].enable_workers /\ ~constructed[i].producer
          /\ constructed[i].workers = 0 /\ constructed[i].task_queue = <<>>

====
